---- MODULE Spec2Model ----
(***************************************************************************)
(* AWS Bedrock credential resolution of bolt.diy:                          *)
(*   - the configuration parser AmazonBedrockProvider._parseAndValidate-   *)
(*     Config, in the three versions the repository carries;               *)
(*   - AWSCredentialService: environment detection with its process-wide   *)
(*     cache, the strategy chain of getCredentials, the status report and  *)
(*     the profile listing (also that of AWSSSOService).                   *)
(*                                                                         *)
(* Four specifications share the variables:                                *)
(*   SpecParse  the parser applied to every raw input of RawInputs;        *)
(*   Spec       one caller at a time calling the service (no overlap);     *)
(*   SpecEnv    overlapping detectEnvironment calls, one step per await;   *)
(*   SpecProbe  detectEnvironment on every host, probe failures included.  *)
(***************************************************************************)
EXTENDS Naturals, Sequences, FiniteSets, TLC

VARIABLES
    raw,              \* parser: the apiKey string handed to the parser
    serverEnv,        \* parser: the caller-supplied environment map
    parsed,           \* parser: outcome of the last parser run
    reparsed,         \* parser: outcome of parsing JSON.stringify of the parsed config
    client,          \* provider: the Bedrock client built by getModelInstance
    world,            \* what the host would answer to each probe right now
    environmentInfo,  \* AWSCredentialService.environmentInfo (Null or a record)
    call,             \* Spec: the call of the single caller
    calls,            \* SpecEnv: the in-flight detectEnvironment call of each caller
    probeRuns,        \* history: how many times the probe set was started
    cacheWrites,      \* history: how many times environmentInfo was assigned
    firstReturned,    \* history: value returned by the first completed detectEnvironment
    worldChanges      \* how many times the host changed under the process

vars == <<raw, serverEnv, parsed, reparsed, client, world, environmentInfo, call, calls,
          probeRuns, cacheWrites, firstReturned, worldChanges>>

parseVars == <<raw, serverEnv, parsed, reparsed, client>>
serviceVars == <<world, environmentInfo, call, calls, probeRuns, cacheWrites,
                 firstReturned, worldChanges>>

(***************************************************************************)
(* JavaScript values.  A missing property reads as undefined; '' and       *)
(* undefined are falsy, every other string is truthy.                      *)
(***************************************************************************)
Undef == "<undefined>"
Null == [null |-> TRUE]

Truthy(v) == v # Undef /\ v # ""

\* obj.k for a plain object held as a function from its own keys
Get(obj, k) == IF k \in DOMAIN obj THEN obj[k] ELSE Undef

EmptyObj == [k \in {} |-> Undef]

\* { ...a, ...b }: b's keys win
Spread(a, b) == [k \in (DOMAIN a) \cup (DOMAIN b) |-> IF k \in DOMAIN b THEN b[k] ELSE a[k]]

\* ...(v && { k: v }): contributes the key only for a truthy v
Opt(k, v) == IF Truthy(v) THEN [x \in {k} |-> v] ELSE EmptyObj

(***************************************************************************)
(* Raw parser inputs.  A raw string is held by what JSON.parse makes of    *)
(* it: text that is not JSON, or the JSON value it denotes.                *)
(***************************************************************************)
\* a JSON object has no undefined members: the keys drawn as Undef are absent
Strip(f) == [k \in {x \in DOMAIN f : f[x] # Undef} |-> f[k]]

RawObjects ==
    {Strip(f) : f \in [authType : {Undef, "static", "sso", "auto"},
                       region : {Undef, "", "us-east-1"},
                       profile : {Undef, "", "dev"},
                       ssoStartUrl : {Undef, "https://test.awsapps.com/start"},
                       ssoRegion : {Undef, "eu-west-1"},
                       ssoAccountId : {Undef, "123456789012"},
                       ssoRoleName : {Undef},
                       accessKeyId : {Undef, "AKIA1"},
                       secretAccessKey : {Undef, "s1"},
                       sessionToken : {Undef, "token1"}]}

JsonKinds == {"invalid", "null", "array", "string", "number", "object"}

RawInputs == {[kind |-> "object", obj |-> o] : o \in RawObjects}
             \cup {[kind |-> j, obj |-> EmptyObj] : j \in JsonKinds \ {"object"}}

ServerEnvs ==
    {Strip(f) : f \in [AWS_BEDROCK_REGION : {Undef, "us-west-2"},
                       AWS_REGION : {Undef, "ap-south-1"},
                       AWS_DEFAULT_REGION : {Undef, "sa-east-1"}]}

(***************************************************************************)
(* JSON.parse: throws on text that is not JSON, and otherwise returns the  *)
(* value, which need not be an object.  Reading a property of null throws  *)
(* a TypeError; of an array, a string or a number it yields undefined for  *)
(* every name the parser reads.                                            *)
(***************************************************************************)
JSONParseThrows(r) == r.kind = "invalid"

ReadThrows(r) == r.kind = "null"

Prop(r, k) == IF r.kind = "object" THEN Get(r.obj, k) ELSE Undef

(***************************************************************************)
(* Error messages of the parsers (their leading words) and the error kind  *)
(* each one stands for.                                                    *)
(***************************************************************************)
MsgInvalidFormat == "Invalid AWS Bedrock configuration format"
MsgMissingRegionSSO == "Missing required region for AWS configuration"
MsgSSOIncomplete == "AWS SSO configuration must include either a profile name or SSO details"
MsgMissingCredentials == "Missing required AWS credentials"
MsgMissingRegionEnv == "Missing AWS region"
MsgMissingRegionChain == "Missing required AWS region"
MsgBothKeysRequired == "When using explicit credentials, both accessKeyId and secretAccessKey are required"
MsgTypeError == "TypeError: Cannot read properties of null"

ErrorKind(msg) ==
    CASE msg = MsgInvalidFormat      -> "MalformedConfig"
      [] msg = MsgMissingRegionSSO   -> "MissingRegion"
      [] msg = MsgMissingRegionEnv   -> "MissingRegion"
      [] msg = MsgMissingRegionChain -> "MissingRegion"
      [] msg = MsgSSOIncomplete      -> "IncompleteSSOConfig"
      [] msg = MsgMissingCredentials -> "IncompleteStaticCredentials"
      [] msg = MsgBothKeysRequired   -> "IncompleteStaticCredentials"
      [] OTHER                       -> "TypeError"

Threw(by, msg) == [by |-> by, threw |-> TRUE, error |-> msg, config |-> EmptyObj]
Returned(by, cfg) == [by |-> by, threw |-> FALSE, error |-> "", config |-> cfg]

(***************************************************************************)
(* _parseAndValidateConfig, SSO-aware version (src/unnamed/part_001).      *)
(***************************************************************************)
SSODetailsMissingNoRegionCheck(authType, profile, ssoStartUrl, ssoRegion) ==
    authType = "sso" /\ ~Truthy(profile) /\ ~Truthy(ssoStartUrl)

SSODetailsMissing(authType, profile, ssoStartUrl, ssoRegion) ==
    authType = "sso" /\ ~Truthy(profile) /\ (~Truthy(ssoStartUrl) \/ ~Truthy(ssoRegion))

\* the object literal returned for authType 'sso' and 'auto'
SSOConfigOfNoAuthType(r) ==
    [k \in {"region", "profile", "ssoStartUrl", "ssoRegion", "ssoAccountId", "ssoRoleName"}
       |-> Prop(r, k)]

SSOConfigOf(r) ==
    [k \in {"authType", "region", "profile", "ssoStartUrl", "ssoRegion", "ssoAccountId",
            "ssoRoleName"}
       |-> Prop(r, k)]

ParseAndValidateConfigSSO(r) ==
    IF JSONParseThrows(r) THEN Threw("sso", MsgInvalidFormat)
    ELSE IF ReadThrows(r) THEN Threw("sso", MsgTypeError)
    ELSE IF Prop(r, "authType") = "sso" \/ Prop(r, "authType") = "auto" THEN
        IF ~Truthy(Prop(r, "region")) THEN Threw("sso", MsgMissingRegionSSO)
        ELSE IF SSODetailsMissing(Prop(r, "authType"), Prop(r, "profile"),
                                  Prop(r, "ssoStartUrl"), Prop(r, "ssoRegion"))
             THEN Threw("sso", MsgSSOIncomplete)
        ELSE Returned("sso", SSOConfigOf(r))
    ELSE IF ~Truthy(Prop(r, "region")) \/ ~Truthy(Prop(r, "accessKeyId"))
            \/ ~Truthy(Prop(r, "secretAccessKey"))
         THEN Threw("sso", MsgMissingCredentials)
    ELSE Returned("sso", Spread([k \in {"region", "accessKeyId", "secretAccessKey"} |-> Prop(r, k)],
                                Opt("sessionToken", Prop(r, "sessionToken"))))

(***************************************************************************)
(* _parseAndValidateConfig, environment-region version                     *)
(* (src/unnamed/part_002).                                                 *)
(***************************************************************************)
FirstTruthy(seq) ==
    LET hits == {i \in 1..Len(seq) : Truthy(seq[i])}
    IN  IF hits = {} THEN seq[Len(seq)]
        ELSE seq[CHOOSE i \in hits : \A j \in hits : i <= j]

RegionOrEnvWrongOrder(r, env) ==
    FirstTruthy(<<Prop(r, "region"), Get(env, "AWS_REGION"),
                  Get(env, "AWS_BEDROCK_REGION"), Get(env, "AWS_DEFAULT_REGION")>>)

RegionOrEnv(r, env) ==
    FirstTruthy(<<Prop(r, "region"), Get(env, "AWS_BEDROCK_REGION"),
                  Get(env, "AWS_REGION"), Get(env, "AWS_DEFAULT_REGION")>>)

ParseAndValidateConfigEnv(r, env) ==
    IF JSONParseThrows(r) THEN Threw("env", MsgInvalidFormat)
    ELSE IF ReadThrows(r) THEN Threw("env", MsgTypeError)
    ELSE IF ~Truthy(RegionOrEnv(r, env)) THEN Threw("env", MsgMissingRegionEnv)
    ELSE Returned("env",
            Spread(Spread(Spread([k \in {"region"} |-> RegionOrEnv(r, env)],
                                 Opt("accessKeyId", Prop(r, "accessKeyId"))),
                          Opt("secretAccessKey", Prop(r, "secretAccessKey"))),
                   Opt("sessionToken", Prop(r, "sessionToken"))))

(***************************************************************************)
(* _parseAndValidateConfig, credential-chain version                       *)
(* (src/unnamed/part_000).                                                 *)
(***************************************************************************)
ParseAndValidateConfigChain(r) ==
    IF JSONParseThrows(r) THEN Threw("chain", MsgInvalidFormat)
    ELSE IF ReadThrows(r) THEN Threw("chain", MsgTypeError)
    ELSE IF ~Truthy(Prop(r, "region")) THEN Threw("chain", MsgMissingRegionChain)
    ELSE IF (Truthy(Prop(r, "accessKeyId")) \/ Truthy(Prop(r, "secretAccessKey")))
            /\ (~Truthy(Prop(r, "accessKeyId")) \/ ~Truthy(Prop(r, "secretAccessKey")))
         THEN Threw("chain", MsgBothKeysRequired)
    ELSE Returned("chain",
            Spread(Spread(Spread([k \in {"region"} |-> Prop(r, "region")],
                                 Opt("accessKeyId", Prop(r, "accessKeyId"))),
                          Opt("secretAccessKey", Prop(r, "secretAccessKey"))),
                   Opt("sessionToken", Prop(r, "sessionToken"))))

\* JSON.stringify(config) as JSON.parse reads it back: an object holding the members
\* whose value is not undefined ('' is kept)
JSONStringify(config) == [kind |-> "object", obj |-> Strip(config)]

NotParsed == [by |-> "none", threw |-> FALSE, error |-> "", config |-> EmptyObj]

NoRaw == [kind |-> "invalid", obj |-> EmptyObj]

(***************************************************************************)
(* The host.  world holds the facts the five probes look at:               *)
(*   dockerenv  /.dockerenv exists                                         *)
(*   cgroup     /proc/1/cgroup: absent, mentions docker, or unreadable     *)
(*   ecsVars    which ECS variable of process.env is set, if any           *)
(*   k8sToken   the service-account token file exists                      *)
(*   k8sHost    KUBERNETES_SERVICE_HOST is set                             *)
(*   awsCli     'aws --version': runs, or is missing                       *)
(*   imds       GET on 169.254.169.254: 2xx, or aborted after 1 s          *)
(* Worlds has one host for each outcome of the five probes.                *)
(***************************************************************************)
Worlds == [dockerenv : BOOLEAN,
           cgroup : {"absent"},
           ecsVars : {"none", "ECS_CONTAINER_METADATA_URI"},
           k8sToken : BOOLEAN,
           k8sHost : {TRUE},
           awsCli : {"ok", "missing"},
           imds : {"ok", "timeout"}]

\* every outcome a probe can meet, its failures included: a cgroup file that exists
\* but cannot be read or does not mention docker, each ECS variable, a metadata
\* endpoint that answers 403, refuses the connection or is aborted after 1 s
ProbeHosts == [dockerenv : BOOLEAN,
               cgroup : {"absent", "docker", "other", "unreadable"},
               ecsVars : {"none", "AWS_EXECUTION_ENV=AWS_ECS_FARGATE",
                          "AWS_EXECUTION_ENV=AWS_Lambda_nodejs",
                          "ECS_CONTAINER_METADATA_URI", "ECS_CONTAINER_METADATA_URI_V4"},
               k8sToken : BOOLEAN,
               k8sHost : BOOLEAN,
               awsCli : {"ok", "missing"},
               imds : {"ok", "forbidden", "error", "timeout"}]

\* the body of a probe either returns a boolean or throws
Val(b) == [threw |-> FALSE, value |-> b]
Thrown == [threw |-> TRUE, value |-> FALSE]

AttemptNoCatch(body) == body

\* try { return body } catch { return false }
Attempt(body) == IF body.threw THEN Val(FALSE) ELSE body

\* existsSync('/.dockerenv') || existsSync(cgroup) && readFileSync(cgroup).includes('docker')
ContainerProbe(w) ==
    IF w.dockerenv THEN Val(TRUE)
    ELSE IF w.cgroup = "absent" THEN Val(FALSE)
    ELSE IF w.cgroup = "unreadable" THEN Thrown
    ELSE Val(w.cgroup = "docker")

\* AWS_EXECUTION_ENV?.includes('ECS') || ECS_CONTAINER_METADATA_URI || ..._V4
ECSProbe(w) ==
    Val(w.ecsVars \in {"AWS_EXECUTION_ENV=AWS_ECS_FARGATE", "ECS_CONTAINER_METADATA_URI",
                       "ECS_CONTAINER_METADATA_URI_V4"})

EKSProbe(w) == Val(w.k8sToken /\ w.k8sHost)

\* execAsync('aws --version') is given no timeout: its promise settles only when the
\* command exits
CliEnds(w) == w.awsCli # "hangs"

\* await execAsync('aws --version'); return true
CliProbe(w) == IF w.awsCli = "ok" THEN Val(TRUE) ELSE Thrown

\* fetch of the metadata endpoint, aborted after 1000 ms; return response.ok
IamProbe(w) == IF w.imds \in {"error", "timeout"} THEN Thrown ELSE Val(w.imds = "ok")

IsRunningInContainer(w) == Attempt(ContainerProbe(w)).value

IsRunningInECS(w) == Attempt(ECSProbe(w)).value

IsRunningInEKS(w) == Attempt(EKSProbe(w)).value

IsAwsCliAvailable(w) == Attempt(CliProbe(w)).value

HasIamRoleAttached(w) == Attempt(IamProbe(w)).value

\* some probe lets its exception out to detectEnvironment
ProbesThrow(w) ==
    \E b \in {Attempt(ContainerProbe(w)), Attempt(ECSProbe(w)), Attempt(EKSProbe(w)),
               Attempt(CliProbe(w)), Attempt(IamProbe(w))} : b.threw

\* the EnvironmentInfo that one uninterrupted run of the probes yields on host w
ProbeAll(w) == [isContainer |-> IsRunningInContainer(w),
                isECS |-> IsRunningInECS(w),
                isEKS |-> IsRunningInEKS(w),
                hasAwsCli |-> IsAwsCliAvailable(w),
                hasIamRole |-> HasIamRoleAttached(w)]

(***************************************************************************)
(* Credentials and errors.  A credential is what a provider hands back;    *)
(* the providers and STS are outside the program, and each call to one     *)
(* either succeeds or fails.  An error message is held as the sequence of  *)
(* its parts, which the code joins with ': ' each time it wraps an error.  *)
(***************************************************************************)
NoCred == [accessKeyId |-> Undef, secretAccessKey |-> Undef, sessionToken |-> Undef]
ChainCredentials == [accessKeyId |-> "ASIACHAIN", secretAccessKey |-> "chain-secret",
                     sessionToken |-> "chain-token"]
IniCredentials == [accessKeyId |-> "ASIAINI", secretAccessKey |-> "ini-secret",
                   sessionToken |-> "ini-token"]
SSOCredentials == [accessKeyId |-> "ASIASSO", secretAccessKey |-> "sso-secret",
                   sessionToken |-> "sso-token"]

MsgResolutionFailed == "AWS credential resolution failed"
MsgValidationFailed == "Credential validation failed"
MsgSSORequires == "SSO configuration requires either profile or SSO details"
MsgProviderError == "CredentialsProviderError: Could not load credentials"
MsgStsError == "InvalidClientTokenId: The security token included in the request is invalid"

Ext(callee, ok) == [callee |-> callee, ok |-> ok]

Ok(trace, cred) == [threw |-> FALSE, trace |-> trace, cred |-> cred, error |-> <<>>]
Fail(trace, error) == [threw |-> TRUE, trace |-> trace, cred |-> NoCred, error |-> error]

\* validateCredentials: the STS failure is rethrown under the validation message
ValidateCredentials(stsOk) ==
    IF stsOk THEN Ok(<<Ext("sts:GetCallerIdentity", TRUE)>>, NoCred)
    ELSE Fail(<<Ext("sts:GetCallerIdentity", FALSE)>>, <<MsgValidationFailed, MsgStsError>>)

GetProductionCredentialsUnvalidated(config, providerOk, stsOk) ==
    IF ~providerOk THEN Fail(<<Ext("fromNodeProviderChain", FALSE)>>, <<MsgProviderError>>)
    ELSE Ok(<<Ext("fromNodeProviderChain", TRUE)>> \o ValidateCredentials(stsOk).trace,
            ChainCredentials)

GetProductionCredentials(config, providerOk, stsOk) ==
    IF ~providerOk THEN Fail(<<Ext("fromNodeProviderChain", FALSE)>>, <<MsgProviderError>>)
    ELSE LET v == ValidateCredentials(stsOk)
         IN  IF v.threw THEN Fail(<<Ext("fromNodeProviderChain", TRUE)>> \o v.trace, v.error)
             ELSE Ok(<<Ext("fromNodeProviderChain", TRUE)>> \o v.trace, ChainCredentials)

GetDevelopmentSSOCredentialsUrlFirst(config, providerOk) ==
    IF Truthy(Get(config, "ssoStartUrl")) THEN
        IF providerOk THEN Ok(<<Ext("fromSSO", TRUE)>>, SSOCredentials)
        ELSE Fail(<<Ext("fromSSO", FALSE)>>, <<MsgProviderError>>)
    ELSE IF Truthy(Get(config, "profile")) THEN
        IF providerOk THEN Ok(<<Ext("fromIni", TRUE)>>, IniCredentials)
        ELSE Fail(<<Ext("fromIni", FALSE)>>, <<MsgProviderError>>)
    ELSE Fail(<<>>, <<MsgSSORequires>>)

GetDevelopmentSSOCredentials(config, providerOk) ==
    IF Truthy(Get(config, "profile")) THEN
        IF providerOk THEN Ok(<<Ext("fromIni", TRUE)>>, IniCredentials)
        ELSE Fail(<<Ext("fromIni", FALSE)>>, <<MsgProviderError>>)
    ELSE IF Truthy(Get(config, "ssoStartUrl")) THEN
        IF providerOk THEN Ok(<<Ext("fromSSO", TRUE)>>, SSOCredentials)
        ELSE Fail(<<Ext("fromSSO", FALSE)>>, <<MsgProviderError>>)
    ELSE Fail(<<>>, <<MsgSSORequires>>)

GetFallbackCredentialsValidated(config, providerOk) ==
    IF Truthy(Get(config, "accessKeyId")) /\ Truthy(Get(config, "secretAccessKey")) THEN
        Ok(<<Ext("sts:GetCallerIdentity", TRUE)>>,
           [accessKeyId |-> Get(config, "accessKeyId"),
            secretAccessKey |-> Get(config, "secretAccessKey"),
            sessionToken |-> Get(config, "sessionToken")])
    ELSE IF providerOk THEN Ok(<<Ext("fromNodeProviderChain", TRUE)>>, ChainCredentials)
    ELSE Fail(<<Ext("fromNodeProviderChain", FALSE)>>, <<MsgProviderError>>)

GetFallbackCredentialsEitherKey(config, providerOk) ==
    IF Truthy(Get(config, "accessKeyId")) \/ Truthy(Get(config, "secretAccessKey")) THEN
        Ok(<<>>, [accessKeyId |-> Get(config, "accessKeyId"),
                  secretAccessKey |-> Get(config, "secretAccessKey"),
                  sessionToken |-> Get(config, "sessionToken")])
    ELSE IF providerOk THEN Ok(<<Ext("fromNodeProviderChain", TRUE)>>, ChainCredentials)
    ELSE Fail(<<Ext("fromNodeProviderChain", FALSE)>>, <<MsgProviderError>>)

GetFallbackCredentials(config, providerOk) ==
    IF Truthy(Get(config, "accessKeyId")) /\ Truthy(Get(config, "secretAccessKey")) THEN
        Ok(<<>>, [accessKeyId |-> Get(config, "accessKeyId"),
                  secretAccessKey |-> Get(config, "secretAccessKey"),
                  sessionToken |-> Get(config, "sessionToken")])
    ELSE IF providerOk THEN Ok(<<Ext("fromNodeProviderChain", TRUE)>>, ChainCredentials)
    ELSE Fail(<<Ext("fromNodeProviderChain", FALSE)>>, <<MsgProviderError>>)

\* the branch getCredentials takes
SelectStrategyStaticFirst(env, config) ==
    IF Truthy(Get(config, "accessKeyId")) /\ Truthy(Get(config, "secretAccessKey"))
        THEN "fallback"
    ELSE IF env.isContainer /\ (env.isECS \/ env.isEKS \/ env.hasIamRole) THEN "production"
    ELSE IF env.hasAwsCli /\ Get(config, "authType") = "sso" THEN "sso"
    ELSE "fallback"

SelectStrategy(env, config) ==
    IF env.isContainer /\ (env.isECS \/ env.isEKS \/ env.hasIamRole) THEN "production"
    ELSE IF env.hasAwsCli /\ Get(config, "authType") = "sso" THEN "sso"
    ELSE "fallback"

GetCredentialsFallsThrough(env, config, providerOk, stsOk) ==
    LET strategy == SelectStrategy(env, config)
        r == CASE strategy = "production" -> GetProductionCredentials(config, providerOk, stsOk)
               [] strategy = "sso"        -> GetDevelopmentSSOCredentials(config, providerOk)
               [] OTHER                   -> GetFallbackCredentials(config, providerOk)
        f == GetFallbackCredentials(config, providerOk)
    IN  IF r.threw /\ strategy # "fallback"
        THEN [strategy |-> strategy, threw |-> f.threw, trace |-> r.trace \o f.trace,
              cred |-> f.cred,
              error |-> IF f.threw THEN <<MsgResolutionFailed>> \o f.error ELSE <<>>]
        ELSE [strategy |-> strategy, threw |-> r.threw, trace |-> r.trace, cred |-> r.cred,
              error |-> IF r.threw THEN <<MsgResolutionFailed>> \o r.error ELSE <<>>]

GetCredentialsMessageDropped(env, config, providerOk, stsOk) ==
    LET strategy == SelectStrategy(env, config)
        r == CASE strategy = "production" -> GetProductionCredentials(config, providerOk, stsOk)
               [] strategy = "sso"        -> GetDevelopmentSSOCredentials(config, providerOk)
               [] OTHER                   -> GetFallbackCredentials(config, providerOk)
    IN  [strategy |-> strategy, threw |-> r.threw, trace |-> r.trace, cred |-> r.cred,
         error |-> IF r.threw THEN <<MsgResolutionFailed>> ELSE <<>>]

\* getCredentials after its detectEnvironment: the try block and its catch
GetCredentials(env, config, providerOk, stsOk) ==
    LET strategy == SelectStrategy(env, config)
        r == CASE strategy = "production" -> GetProductionCredentials(config, providerOk, stsOk)
               [] strategy = "sso"        -> GetDevelopmentSSOCredentials(config, providerOk)
               [] OTHER                   -> GetFallbackCredentials(config, providerOk)
    IN  [strategy |-> strategy, threw |-> r.threw, trace |-> r.trace, cred |-> r.cred,
         error |-> IF r.threw THEN <<MsgResolutionFailed>> \o r.error ELSE <<>>]

(***************************************************************************)
(* checkCredentialStatus after its detectEnvironment calls: env is what    *)
(* getCredentials saw, envAfter what the second detectEnvironment returns. *)
(* Everything runs inside one try block whose catch builds the             *)
(* unavailable status.                                                     *)
(***************************************************************************)
NoIdentity == [Account |-> Undef, Arn |-> Undef, UserId |-> Undef]
CallerIdentity == [Account |-> "123456789012", Arn |-> "arn:aws:sts::123456789012:caller",
                   UserId |-> "AIDACALLER"]

NoStatus == [available |-> FALSE, method |-> "", identity |-> NoIdentity, error |-> <<>>]

Unavailable(error) ==
    [available |-> FALSE, method |-> "none", identity |-> NoIdentity, error |-> error]

StatusMethod(envAfter, config) ==
    IF envAfter.isECS THEN "ECS Task Role"
    ELSE IF envAfter.isEKS THEN "EKS Service Account"
    ELSE IF envAfter.hasIamRole THEN "EC2 Instance Profile"
    ELSE IF Get(config, "authType") = "sso" THEN "AWS SSO"
    ELSE IF Truthy(Get(config, "accessKeyId")) THEN "Static Credentials"
    ELSE "Default Credential Chain"

CheckCredentialStatusIdentityUncaught(env, envAfter, config, providerOk, stsOk, identityOk) ==
    LET g == GetCredentials(env, config, providerOk, stsOk)
    IN  IF g.threw
        THEN [strategy |-> g.strategy, threw |-> FALSE, trace |-> g.trace, cred |-> NoCred,
              error |-> <<>>, status |-> Unavailable(g.error)]
        ELSE IF ~identityOk
        THEN [strategy |-> g.strategy, threw |-> TRUE,
              trace |-> g.trace \o <<Ext("sts:GetCallerIdentity", FALSE)>>, cred |-> NoCred,
              error |-> <<MsgStsError>>, status |-> NoStatus]
        ELSE [strategy |-> g.strategy, threw |-> FALSE,
              trace |-> g.trace \o <<Ext("sts:GetCallerIdentity", TRUE)>>, cred |-> g.cred,
              error |-> <<>>,
              status |-> [available |-> TRUE, method |-> StatusMethod(envAfter, config),
                          identity |-> CallerIdentity, error |-> <<>>]]

CheckCredentialStatusIdentityIgnored(env, envAfter, config, providerOk, stsOk, identityOk) ==
    LET g == GetCredentials(env, config, providerOk, stsOk)
    IN  IF g.threw
        THEN [strategy |-> g.strategy, threw |-> FALSE, trace |-> g.trace, cred |-> NoCred,
              error |-> <<>>, status |-> Unavailable(g.error)]
        ELSE [strategy |-> g.strategy, threw |-> FALSE,
              trace |-> g.trace \o <<Ext("sts:GetCallerIdentity", identityOk)>>,
              cred |-> g.cred, error |-> <<>>,
              status |-> [available |-> TRUE, method |-> StatusMethod(envAfter, config),
                          identity |-> IF identityOk THEN CallerIdentity ELSE NoIdentity,
                          error |-> <<>>]]

CheckCredentialStatus(env, envAfter, config, providerOk, stsOk, identityOk) ==
    LET g == GetCredentials(env, config, providerOk, stsOk)
    IN  IF g.threw
        THEN [strategy |-> g.strategy, threw |-> FALSE, trace |-> g.trace, cred |-> NoCred,
              error |-> <<>>, status |-> Unavailable(g.error)]
        ELSE IF ~identityOk
        THEN [strategy |-> g.strategy, threw |-> FALSE,
              trace |-> g.trace \o <<Ext("sts:GetCallerIdentity", FALSE)>>, cred |-> NoCred,
              error |-> <<>>, status |-> Unavailable(<<MsgStsError>>)]
        ELSE [strategy |-> g.strategy, threw |-> FALSE,
              trace |-> g.trace \o <<Ext("sts:GetCallerIdentity", TRUE)>>, cred |-> g.cred,
              error |-> <<>>,
              status |-> [available |-> TRUE, method |-> StatusMethod(envAfter, config),
                          identity |-> CallerIdentity, error |-> <<>>]]

(***************************************************************************)
(* The configs callers hand to the service (AWSCredentialConfig).          *)
(***************************************************************************)
Configs ==
    {Strip(f) : f \in [authType : {Undef, "static", "sso", "auto"},
                       region : {"us-east-1"},
                       profile : {Undef, "dev"},
                       ssoStartUrl : {Undef, "https://test.awsapps.com/start"},
                       ssoRegion : {Undef, "eu-west-1"},
                       accessKeyId : {Undef, "AKIA1"},
                       secretAccessKey : {Undef, "s1"},
                       sessionToken : {Undef, "token1"}]}

(***************************************************************************)
(* ~/.aws/config.  A line is the sequence of its characters, a file the    *)
(* sequence of its lines (what split('\n') makes of its content); the     *)
(* file may also be missing, or exist and fail to be read.                 *)
(***************************************************************************)
MaxLines == 2

DefaultHeader == <<"[", "d", "e", "f", "a", "u", "l", "t", "]">>
ProfilePrefix == <<"[", "p", "r", "o", "f", "i", "l", "e", " ">>
DefaultName == <<"d", "e", "f", "a", "u", "l", "t">>

LineDefault == DefaultHeader
LineProfileDev == ProfilePrefix \o <<"d", "e", "v", "]">>
LineProfileProdIndented == <<" ">> \o ProfilePrefix \o <<"p", "r", "o", "d", "]", " ">>
LineSetting == <<"r", "e", "g", "i", "o", "n", "=", "x">>
LineBlank == <<>>
LineProfileDevUnclosed == ProfilePrefix \o <<"d", "e", "v">>
LineDefaultTrailing == DefaultHeader \o <<"x">>

ConfigLines == {LineDefault, LineProfileDev, LineProfileProdIndented, LineSetting, LineBlank,
                LineProfileDevUnclosed, LineDefaultTrailing}

NoFile == [state |-> "missing", lines |-> <<>>]

ConfigFiles ==
    {NoFile, [state |-> "unreadable", lines |-> <<>>]}
    \cup {[state |-> "ok", lines |-> l] : l \in UNION {[1..n -> ConfigLines] : n \in 0..MaxLines}}

\* String.prototype.trim, startsWith, endsWith and slice(start, -fromEnd)
RECURSIVE TrimStart(_)
TrimStart(l) == IF l # <<>> /\ Head(l) = " " THEN TrimStart(Tail(l)) ELSE l

RECURSIVE TrimEnd(_)
TrimEnd(l) == IF l # <<>> /\ l[Len(l)] = " " THEN TrimEnd(SubSeq(l, 1, Len(l) - 1)) ELSE l

Trim(l) == TrimEnd(TrimStart(l))

StartsWith(l, prefix) == Len(l) >= Len(prefix) /\ SubSeq(l, 1, Len(prefix)) = prefix

EndsWith(l, suffix) ==
    Len(l) >= Len(suffix) /\ SubSeq(l, Len(l) - Len(suffix) + 1, Len(l)) = suffix

Slice(l, start, fromEnd) ==
    IF Len(l) - fromEnd <= start THEN <<>> ELSE SubSeq(l, start + 1, Len(l) - fromEnd)

\* AWSCredentialService.getAvailableProfiles: what one line adds to profiles
ProfilesOfLine(line) ==
    LET trimmedLine == Trim(line)
    IN  IF StartsWith(trimmedLine, DefaultHeader) THEN <<DefaultName>>
        ELSE IF StartsWith(trimmedLine, ProfilePrefix) THEN <<Trim(Slice(trimmedLine, 9, 1))>>
        ELSE <<>>

RECURSIVE ProfilesOfLines(_)
ProfilesOfLines(lines) ==
    IF lines = <<>> THEN <<>> ELSE ProfilesOfLine(Head(lines)) \o ProfilesOfLines(Tail(lines))

\* the try block of getAvailableProfiles and its catch, on either service
ReadProfiles(file, parsedLines) ==
    IF file.state = "missing" THEN [trace |-> <<Ext("fs.existsSync", TRUE)>>, profiles |-> <<>>]
    ELSE IF file.state = "unreadable"
    THEN [trace |-> <<Ext("fs.existsSync", TRUE), Ext("fs.readFileSync", FALSE)>>,
          profiles |-> <<>>]
    ELSE [trace |-> <<Ext("fs.existsSync", TRUE), Ext("fs.readFileSync", TRUE)>>,
          profiles |-> parsedLines]

GetAvailableProfilesNoContainerTest(env, file) == ReadProfiles(file, ProfilesOfLines(file.lines))

\* AWSCredentialService.getAvailableProfiles after its detectEnvironment
GetAvailableProfiles(env, file) ==
    IF env.isContainer THEN [trace |-> <<>>, profiles |-> <<>>]
    ELSE ReadProfiles(file, ProfilesOfLines(file.lines))

\* AWSSSOService.getAvailableProfiles: what one line adds to profiles
SSOProfilesOfLineUntrimmed(line) ==
    IF line = DefaultHeader THEN <<DefaultName>>
    ELSE IF StartsWith(line, ProfilePrefix) /\ EndsWith(line, <<"]">>)
         THEN <<Slice(line, 9, 1)>>
    ELSE <<>>

SSOProfilesOfLine(line) ==
    LET trimmedLine == Trim(line)
    IN  IF trimmedLine = DefaultHeader THEN <<DefaultName>>
        ELSE IF StartsWith(trimmedLine, ProfilePrefix) /\ EndsWith(trimmedLine, <<"]">>)
             THEN <<Slice(trimmedLine, 9, 1)>>
        ELSE <<>>

RECURSIVE SSOProfilesOfLines(_)
SSOProfilesOfLines(lines) ==
    IF lines = <<>> THEN <<>>
    ELSE SSOProfilesOfLine(Head(lines)) \o SSOProfilesOfLines(Tail(lines))

SSOGetAvailableProfiles(file) == ReadProfiles(file, SSOProfilesOfLines(file.lines))

(***************************************************************************)
(* AWSSSOService.getAWSConfig.  The files it is run on are made of         *)
(* sections: a header line, the sso_start_url, sso_region and region       *)
(* lines the section has (region possibly with an empty value), a setting  *)
(* the method does not know, and an empty line.  In a setting line a key   *)
(* or value is one element of the line; the values of section i end in i.  *)
(***************************************************************************)
MaxSections == 2

SectionNames == {DefaultName, <<"d", "e", "v">>}

Sections == [name : SectionNames, url : BOOLEAN, ssoRegion : BOOLEAN,
             region : {"none", "set", "empty"}]

HeaderLine(name) ==
    IF name = DefaultName THEN DefaultHeader ELSE ProfilePrefix \o name \o <<"]">>

SectionLines(sec, i) ==
    <<HeaderLine(sec.name)>>
    \o (IF sec.url THEN <<<<"sso_start_url", "=", "u" \o ToString(i)>>>> ELSE <<>>)
    \o (IF sec.ssoRegion THEN <<<<"sso_region", " ", "=", " ", "sr" \o ToString(i)>>>> ELSE <<>>)
    \o (CASE sec.region = "set"   -> <<<<" ", "region", "=", "r" \o ToString(i), " ">>>>
          [] sec.region = "empty" -> <<<<"region", "=">>>>
          [] OTHER                -> <<>>)
    \o <<<<"output", "=", "json">>, <<>>>>

RECURSIVE FileLines(_, _)
FileLines(secs, i) ==
    IF i > Len(secs) THEN <<>> ELSE SectionLines(secs[i], i) \o FileLines(secs, i + 1)

SSOConfigFiles ==
    {NoFile, [state |-> "unreadable", lines |-> <<>>]}
    \cup {[state |-> "ok", lines |-> FileLines(secs, 1), sections |-> secs] :
             secs \in UNION {[1..n -> Sections] : n \in 0..MaxSections}}

\* the profile argument: <<>> when omitted, <<name>> when given
ProfileArgs == {<<>>} \cup {<<n>> : n \in SectionNames \cup {<<"p", "r", "o", "d">>}}

\* stderr.includes('error'), trimmedLine.includes('='): some element is the one sought
Includes(words, word) == \E i \in DOMAIN words : words[i] = word

\* trimmedLine.split('='): the pieces between the '=' elements
RECURSIVE Split(_, _)
Split(l, sep) ==
    IF \A i \in DOMAIN l : l[i] # sep THEN <<l>>
    ELSE LET at == CHOOSE i \in DOMAIN l : l[i] = sep /\ \A j \in 1..(i - 1) : l[j] # sep
         IN  <<SubSeq(l, 1, at - 1)>> \o Split(SubSeq(l, at + 1, Len(l)), sep)

\* the switch on key: the five keys it knows, every other key ignored
SetConfigKey(config, key, value) ==
    CASE key = <<"sso_start_url">>  -> Spread(config, [k \in {"ssoStartUrl"} |-> value])
      [] key = <<"sso_region">>     -> Spread(config, [k \in {"ssoRegion"} |-> value])
      [] key = <<"sso_account_id">> -> Spread(config, [k \in {"ssoAccountId"} |-> value])
      [] key = <<"sso_role_name">>  -> Spread(config, [k \in {"ssoRoleName"} |-> value])
      [] key = <<"region">>         -> Spread(config, [k \in {"region"} |-> value])
      [] OTHER                      -> config

RECURSIVE ScanLinesNoBreak(_, _, _, _)
ScanLinesNoBreak(lines, profileSection, inTargetProfile, config) ==
    IF lines = <<>> THEN config
    ELSE LET trimmedLine == Trim(Head(lines))
         IN  IF trimmedLine = profileSection
             THEN ScanLinesNoBreak(Tail(lines), profileSection, TRUE, config)
             ELSE IF StartsWith(trimmedLine, <<"[">>) /\ inTargetProfile
             THEN ScanLinesNoBreak(Tail(lines), profileSection, TRUE, config)
             ELSE IF inTargetProfile /\ Includes(trimmedLine, "=")
             THEN LET parts == Split(trimmedLine, "=")
                  IN  ScanLinesNoBreak(Tail(lines), profileSection, inTargetProfile,
                                       SetConfigKey(config, Trim(parts[1]), Trim(parts[2])))
             ELSE ScanLinesNoBreak(Tail(lines), profileSection, inTargetProfile, config)

\* the for loop over the lines, from the state it is in before the first of lines
RECURSIVE ScanLines(_, _, _, _)
ScanLines(lines, profileSection, inTargetProfile, config) ==
    IF lines = <<>> THEN config
    ELSE LET trimmedLine == Trim(Head(lines))
         IN  IF trimmedLine = profileSection
             THEN ScanLines(Tail(lines), profileSection, TRUE, config)
             ELSE IF StartsWith(trimmedLine, <<"[">>) /\ inTargetProfile
             THEN config
             ELSE IF inTargetProfile /\ Includes(trimmedLine, "=")
             THEN LET parts == Split(trimmedLine, "=")
                  IN  ScanLines(Tail(lines), profileSection, inTargetProfile,
                                SetConfigKey(config, Trim(parts[1]), Trim(parts[2])))
             ELSE ScanLines(Tail(lines), profileSection, inTargetProfile, config)

\* config.k is set and is not ''
HasText(config, k) == k \in DOMAIN config /\ config[k] # <<>>

\* AWSSSOService.getAWSConfig(profile = 'default')
GetAWSConfig(file, profileArg) ==
    LET profile == IF profileArg = <<>> THEN DefaultName ELSE profileArg[1]
        profileSection == IF profile = DefaultName THEN DefaultHeader
                          ELSE ProfilePrefix \o profile \o <<"]">>
        config == ScanLines(file.lines, profileSection, FALSE, EmptyObj)
    IN  IF file.state = "missing"
        THEN [trace |-> <<Ext("fs.existsSync", TRUE)>>, awsConfig |-> Null]
        ELSE IF file.state = "unreadable"
        THEN [trace |-> <<Ext("fs.existsSync", TRUE), Ext("fs.readFileSync", FALSE)>>,
              awsConfig |-> Null]
        ELSE [trace |-> <<Ext("fs.existsSync", TRUE), Ext("fs.readFileSync", TRUE)>>,
              awsConfig |-> IF HasText(config, "ssoStartUrl") /\ HasText(config, "ssoRegion")
                                  /\ HasText(config, "region")
                               THEN Spread(config, [k \in {"profile"} |-> profile])
                               ELSE Null]

(***************************************************************************)
(* SSO login through the AWS CLI.  A command is the string handed to exec; *)
(* exec either fails (non-zero exit) or succeeds.                          *)
(***************************************************************************)
LoginProfiles == {Undef, "", "dev"}

MsgLoginFailed == "AWS SSO login failed"
MsgExecError == "Command failed: aws sso login"
MsgCliNotAvailable == "AWS CLI is not available. In production, use IAM roles instead of SSO."
MsgNotInContainers == "SSO login is not supported in container environments. Use IAM roles for production."

\* profile ? `aws sso login --profile ${profile}` : 'aws sso login'
LoginCommand(profile) ==
    IF Truthy(profile) THEN "aws sso login --profile " \o profile ELSE "aws sso login"

InitiateSSORLoginNoContainerTest(env, profile, execOk) ==
    IF ~env.hasAwsCli THEN Fail(<<>>, <<MsgCliNotAvailable>>)
    ELSE IF execOk THEN Ok(<<Ext(LoginCommand(profile), TRUE)>>, NoCred)
    ELSE Fail(<<Ext(LoginCommand(profile), FALSE)>>, <<MsgLoginFailed, MsgExecError>>)

\* AWSCredentialService.initiateSSORLogin after its detectEnvironment
InitiateSSORLogin(env, profile, execOk) ==
    IF ~env.hasAwsCli THEN Fail(<<>>, <<MsgCliNotAvailable>>)
    ELSE IF env.isContainer THEN Fail(<<>>, <<MsgNotInContainers>>)
    ELSE IF execOk THEN Ok(<<Ext(LoginCommand(profile), TRUE)>>, NoCred)
    ELSE Fail(<<Ext(LoginCommand(profile), FALSE)>>, <<MsgLoginFailed, MsgExecError>>)

\* AWSSSOService.isAwsCliAvailable
SSOIsAwsCliAvailable(w) == Attempt(CliProbe(w)).value

MsgCliNotInstalled == "AWS CLI is not installed or not available in PATH. Please install AWS CLI first."

\* what the login command wrote to stderr, word by word
Stderrs == {<<>>, <<"Opening", "browser">>, <<"An", "error", "occurred">>}

LoginSSOStderrIgnored(cliOk, profile, execOk, stderr) ==
    IF ~cliOk
    THEN Fail(<<Ext("aws --version", FALSE)>>, <<MsgLoginFailed, MsgCliNotInstalled>>)
    ELSE IF ~execOk
    THEN Fail(<<Ext("aws --version", TRUE), Ext(LoginCommand(profile), FALSE)>>,
              <<MsgLoginFailed, MsgExecError>>)
    ELSE Ok(<<Ext("aws --version", TRUE), Ext(LoginCommand(profile), TRUE)>>, NoCred)

\* AWSSSOService.loginSSO: the try block, and the catch that wraps every error
LoginSSO(cliOk, profile, execOk, stderr) ==
    IF ~cliOk
    THEN Fail(<<Ext("aws --version", FALSE)>>, <<MsgLoginFailed, MsgCliNotInstalled>>)
    ELSE IF ~execOk
    THEN Fail(<<Ext("aws --version", TRUE), Ext(LoginCommand(profile), FALSE)>>,
              <<MsgLoginFailed, MsgExecError>>)
    ELSE IF stderr # <<>> /\ Includes(stderr, "error")
    THEN Fail(<<Ext("aws --version", TRUE), Ext(LoginCommand(profile), TRUE)>>,
              <<MsgLoginFailed, MsgLoginFailed>> \o stderr)
    ELSE Ok(<<Ext("aws --version", TRUE), Ext(LoginCommand(profile), TRUE)>>, NoCred)

MsgMethodNotAllowed == "Method not allowed"
MsgBodyNotJson == "SyntaxError: Unexpected token in JSON"
MsgRouteContainer == "SSO login is not available in container environments. Use IAM roles for production."
MsgRouteNoCli == "AWS CLI is not available. Install AWS CLI for SSO login in development environments."

HttpOk == 200
HttpBadRequest == 400
HttpMethodNotAllowed == 405
HttpServerError == 500

Response(http, trace, error) == [http |-> http, trace |-> trace, error |-> error]

\* action of the login route; env is what both detectEnvironment calls return
LoginAction(method, bodyOk, env, profile, execOk) ==
    IF method # "POST" THEN Response(HttpMethodNotAllowed, <<>>, <<MsgMethodNotAllowed>>)
    ELSE IF ~bodyOk THEN Response(HttpServerError, <<>>, <<MsgBodyNotJson>>)
    ELSE IF env.isContainer THEN Response(HttpBadRequest, <<>>, <<MsgRouteContainer>>)
    ELSE IF ~env.hasAwsCli THEN Response(HttpBadRequest, <<>>, <<MsgRouteNoCli>>)
    ELSE LET r == InitiateSSORLogin(env, profile, execOk)
         IN  IF r.threw THEN Response(HttpServerError, r.trace, r.error)
             ELSE Response(HttpOk, r.trace, <<>>)

(***************************************************************************)
(* Spec: one caller, one call at a time.  With no other call in flight a   *)
(* handler runs from its first line to its return without interference,    *)
(* so each handler is one action.                                          *)
(***************************************************************************)
IdleCall == [pc |-> "idle", op |-> "none", config |-> EmptyObj, env |-> Null,
             strategy |-> "none", threw |-> FALSE, trace |-> <<>>, cred |-> NoCred,
             error |-> <<>>, status |-> NoStatus, file |-> NoFile, profiles |-> <<>>,
             input |-> EmptyObj, http |-> 0,
             awsConfig |-> Null]

\* detectEnvironment run without interruption: the cached value, or a probe of the host
DetectedEnv == IF environmentInfo # Null THEN environmentInfo ELSE ProbeAll(world)

DetectEffectsCacheNeverAssigned ==
    /\ environmentInfo' = environmentInfo
    /\ probeRuns' = IF environmentInfo = Null THEN probeRuns + 1 ELSE probeRuns
    /\ cacheWrites' = cacheWrites
    /\ firstReturned' = IF firstReturned = Null THEN DetectedEnv ELSE firstReturned

DetectEffects ==
    /\ environmentInfo' = DetectedEnv
    /\ probeRuns' = IF environmentInfo = Null THEN probeRuns + 1 ELSE probeRuns
    /\ cacheWrites' = IF environmentInfo = Null THEN cacheWrites + 1 ELSE cacheWrites
    /\ firstReturned' = IF firstReturned = Null THEN DetectedEnv ELSE firstReturned

DetectEnvironmentCall ==
    /\ call.pc = "idle"
    /\ DetectEffects
    /\ call' = [IdleCall EXCEPT !.pc = "done", !.op = "detectEnvironment", !.env = DetectedEnv,
                                !.threw = (environmentInfo = Null /\ ProbesThrow(world))]
    /\ UNCHANGED <<parseVars, world, calls, worldChanges>>

GetCredentialsCall ==
    /\ call.pc = "idle"
    /\ \E config \in Configs, providerOk \in BOOLEAN, stsOk \in BOOLEAN :
          LET g == GetCredentials(DetectedEnv, config, providerOk, stsOk)
          IN  call' = [pc |-> "done", op |-> "getCredentials", config |-> config,
                       env |-> DetectedEnv, strategy |-> g.strategy, threw |-> g.threw,
                       trace |-> g.trace, cred |-> g.cred, error |-> g.error,
                       status |-> NoStatus, file |-> NoFile, profiles |-> <<>>,
                       input |-> EmptyObj, http |-> 0,
                       awsConfig |-> Null]
    /\ DetectEffects
    /\ UNCHANGED <<parseVars, world, calls, worldChanges>>

CheckCredentialStatusCall ==
    /\ call.pc = "idle"
    /\ \E config \in Configs, providerOk \in BOOLEAN, stsOk \in BOOLEAN, identityOk \in BOOLEAN :
          LET r == CheckCredentialStatus(DetectedEnv, DetectedEnv, config,
                                         providerOk, stsOk, identityOk)
          IN  call' = [pc |-> "done", op |-> "checkCredentialStatus", config |-> config,
                       env |-> DetectedEnv, strategy |-> r.strategy, threw |-> r.threw,
                       trace |-> r.trace, cred |-> r.cred, error |-> r.error,
                       status |-> r.status, file |-> NoFile, profiles |-> <<>>,
                       input |-> EmptyObj, http |-> 0,
                       awsConfig |-> Null]
    /\ DetectEffects
    /\ UNCHANGED <<parseVars, world, calls, worldChanges>>

\* AWSCredentialService.getAvailableProfiles on whatever ~/.aws/config holds
GetAvailableProfilesCall ==
    /\ call.pc = "idle"
    /\ \E file \in ConfigFiles :
          LET r == GetAvailableProfiles(DetectedEnv, file)
          IN  call' = [IdleCall EXCEPT !.pc = "done", !.op = "getAvailableProfiles",
                                      !.env = DetectedEnv, !.file = file,
                                      !.trace = r.trace, !.profiles = r.profiles]
    /\ DetectEffects
    /\ UNCHANGED <<parseVars, world, calls, worldChanges>>

\* AWSSSOService.getAvailableProfiles: no service state is read or written
SSOGetAvailableProfilesCall ==
    /\ call.pc = "idle"
    /\ \E file \in ConfigFiles :
          LET r == SSOGetAvailableProfiles(file)
          IN  call' = [IdleCall EXCEPT !.pc = "done", !.op = "sso.getAvailableProfiles",
                                      !.file = file, !.trace = r.trace,
                                      !.profiles = r.profiles]
    /\ UNCHANGED <<parseVars, world, environmentInfo, calls, probeRuns, cacheWrites,
                   firstReturned, worldChanges>>

InitiateSSORLoginCall ==
    /\ call.pc = "idle"
    /\ \E profile \in LoginProfiles, execOk \in BOOLEAN :
          LET r == InitiateSSORLogin(DetectedEnv, profile, execOk)
          IN  call' = [IdleCall EXCEPT !.pc = "done", !.op = "initiateSSORLogin",
                                      !.env = DetectedEnv,
                                      !.input = [profile |-> profile, execOk |-> execOk],
                                      !.threw = r.threw, !.trace = r.trace,
                                      !.error = r.error]
    /\ DetectEffects
    /\ UNCHANGED <<parseVars, world, calls, worldChanges>>

\* a request to the login route; a request that is not a POST or whose body is not
\* JSON is answered before detectEnvironment is called
LoginRouteCall ==
    /\ call.pc = "idle"
    /\ \E method \in {"POST", "GET"}, bodyOk \in BOOLEAN, profile \in LoginProfiles,
          execOk \in BOOLEAN :
          /\ LET r == LoginAction(method, bodyOk, DetectedEnv, profile, execOk)
             IN  call' = [IdleCall EXCEPT !.pc = "done", !.op = "loginRoute",
                                         !.env = DetectedEnv,
                                         !.input = [method |-> method, bodyOk |-> bodyOk,
                                                    profile |-> profile, execOk |-> execOk],
                                         !.trace = r.trace, !.error = r.error,
                                         !.http = r.http]
          /\ IF method = "POST" /\ bodyOk
             THEN DetectEffects
             ELSE UNCHANGED <<environmentInfo, probeRuns, cacheWrites, firstReturned>>
    /\ UNCHANGED <<parseVars, world, calls, worldChanges>>

\* AWSSSOService.loginSSO: the service has no state of its own
LoginSSOCall ==
    /\ call.pc = "idle"
    /\ \E profile \in LoginProfiles, execOk \in BOOLEAN, stderr \in Stderrs :
          LET r == LoginSSO(SSOIsAwsCliAvailable(world), profile, execOk, stderr)
          IN  call' = [IdleCall EXCEPT !.pc = "done", !.op = "sso.loginSSO",
                                      !.input = [profile |-> profile, execOk |-> execOk,
                                                 stderr |-> stderr],
                                      !.threw = r.threw, !.trace = r.trace,
                                      !.error = r.error]
    /\ UNCHANGED <<parseVars, world, environmentInfo, calls, probeRuns, cacheWrites,
                   firstReturned, worldChanges>>

\* AWSSSOService.getAWSConfig on whatever ~/.aws/config holds
GetAWSConfigCall ==
    /\ call.pc = "idle"
    /\ \E file \in SSOConfigFiles, profileArg \in ProfileArgs :
          LET r == GetAWSConfig(file, profileArg)
          IN  call' = [IdleCall EXCEPT !.pc = "done", !.op = "sso.getAWSConfig",
                                      !.file = file, !.input = [profile |-> profileArg],
                                      !.trace = r.trace, !.awsConfig = r.awsConfig]
    /\ UNCHANGED <<parseVars, world, environmentInfo, calls, probeRuns, cacheWrites,
                   firstReturned, worldChanges>>

Return ==
    /\ call.pc = "done"
    /\ call' = IdleCall
    /\ UNCHANGED <<parseVars, world, environmentInfo, calls, probeRuns, cacheWrites,
                   firstReturned, worldChanges>>

(***************************************************************************)
(* AmazonBedrockProvider.getModelInstance (src/unnamed/part_001) and the   *)
(* credentials callback it hands to the Bedrock client.  client holds what  *)
(* the Bedrock client was built with and how often it asked for them.      *)
(***************************************************************************)
MaxInvocations == 2

MsgMissingApiKey == "Missing API key for AmazonBedrock provider"

NoModel == [kind |-> "none", config |-> EmptyObj, invocations |-> 0, resolverCalls |-> 0]

\* the raw configs getModelInstance is run on
ModelRaws ==
    {r \in RawInputs :
        /\ Prop(r, "region") # ""
        /\ Prop(r, "profile") # ""
        /\ Prop(r, "ssoAccountId") = Undef
        /\ Prop(r, "sessionToken") = Undef}

UsesResolverAlways(config) == TRUE

\* 'authType' in config && (config.authType === 'sso' || config.authType === 'auto')
UsesResolver(config) ==
    "authType" \in DOMAIN config /\ Get(config, "authType") \in {"sso", "auto"}

\* the AWSCredentialConfig the callback builds from the parsed config
CredentialConfigOf(config) ==
    Strip([authType |-> IF Truthy(Get(config, "authType")) THEN Get(config, "authType")
                        ELSE "auto",
           region |-> Get(config, "region"),
           profile |-> Get(config, "profile"),
           ssoStartUrl |-> Get(config, "ssoStartUrl"),
           ssoRegion |-> Get(config, "ssoRegion"),
           ssoAccountId |-> Get(config, "ssoAccountId"),
           ssoRoleName |-> Get(config, "ssoRoleName")])

\* getModelInstance: no key, a config the parser rejects, or a client built with
\* the credentials callback or with the static config
GetModelInstanceCall ==
    /\ call.pc = "idle"
    /\ client.kind = "none"
    /\ \E apiKeyGiven \in BOOLEAN :
          LET p == ParseAndValidateConfigSSO(raw)
          IN  IF ~apiKeyGiven
              THEN /\ client' = [NoModel EXCEPT !.kind = "threw"]
                   /\ call' = [IdleCall EXCEPT !.pc = "done", !.op = "getModelInstance",
                                               !.threw = TRUE, !.error = <<MsgMissingApiKey>>]
                   /\ UNCHANGED parsed
              ELSE /\ parsed' = p
                   /\ client' = IF p.threw THEN [NoModel EXCEPT !.kind = "threw"]
                                 ELSE IF UsesResolver(p.config)
                                 THEN [NoModel EXCEPT !.kind = "resolver", !.config = p.config]
                                 ELSE [NoModel EXCEPT !.kind = "static", !.config = p.config]
                   /\ call' = [IdleCall EXCEPT !.pc = "done", !.op = "getModelInstance",
                                               !.threw = p.threw,
                                               !.error = IF p.threw THEN <<p.error>> ELSE <<>>]
    /\ UNCHANGED <<raw, serverEnv, reparsed, world, environmentInfo, calls, probeRuns,
                   cacheWrites, firstReturned, worldChanges>>

\* the Bedrock client asks for credentials: the callback calls getCredentials; a
\* client built with the static config takes the keys it was built with
InvokeCredentials ==
    /\ call.pc = "idle"
    /\ client.kind \in {"resolver", "static"}
    /\ client.invocations < MaxInvocations
    /\ IF client.kind = "resolver"
       THEN /\ \E providerOk \in BOOLEAN, stsOk \in BOOLEAN :
                  LET config == CredentialConfigOf(client.config)
                      g == GetCredentials(DetectedEnv, config, providerOk, stsOk)
                  IN  call' = [IdleCall EXCEPT !.pc = "done", !.op = "credentials",
                                              !.config = config, !.env = DetectedEnv,
                                              !.strategy = g.strategy, !.threw = g.threw,
                                              !.trace = g.trace, !.cred = g.cred,
                                              !.error = g.error]
            /\ DetectEffects
            /\ client' = [client EXCEPT !.invocations = @ + 1, !.resolverCalls = @ + 1]
       ELSE /\ call' = [IdleCall EXCEPT !.pc = "done", !.op = "credentials",
                                       !.config = client.config,
                                       !.cred = [accessKeyId |-> Get(client.config, "accessKeyId"),
                                                 secretAccessKey |-> Get(client.config, "secretAccessKey"),
                                                 sessionToken |-> Get(client.config, "sessionToken")]]
            /\ client' = [client EXCEPT !.invocations = @ + 1]
            /\ UNCHANGED <<environmentInfo, probeRuns, cacheWrites, firstReturned>>
    /\ UNCHANGED <<raw, serverEnv, parsed, reparsed, world, calls, worldChanges>>

\* the caller has taken the result of getModelInstance or of the callback
ModelReturn ==
    /\ call.pc = "done"
    /\ call' = IdleCall
    /\ UNCHANGED <<parseVars, world, environmentInfo, calls, probeRuns, cacheWrites,
                   firstReturned, worldChanges>>

(***************************************************************************)
(* SpecEnv: overlapping detectEnvironment calls.  detectEnvironment is an  *)
(* async function: it runs to its next await, and other callers run while  *)
(* it waits.  Each action is the code between two awaits.                  *)
(***************************************************************************)
NumCallers == 2
MaxWorldChanges == 1

Callers == 1..NumCallers

IdleDetect == [pc |-> "idle", isContainer |-> FALSE, isECS |-> FALSE, isEKS |-> FALSE,
               hasAwsCli |-> FALSE, env |-> Null, probed |-> FALSE, late |-> FALSE]

\* line 60-65: the cache test, then the container and ECS probes up to the first await
DetectStart(c) ==
    /\ calls[c].pc = "idle"
    /\ IF environmentInfo # Null
       THEN /\ calls' = [calls EXCEPT ![c] = [IdleDetect EXCEPT !.pc = "done",
                                                !.env = environmentInfo,
                                                !.late = (firstReturned # Null)]]
            /\ firstReturned' = IF firstReturned = Null THEN environmentInfo ELSE firstReturned
            /\ UNCHANGED probeRuns
       ELSE /\ calls' = [calls EXCEPT ![c] = [IdleDetect EXCEPT !.pc = "awaitECS",
                                                !.isContainer = IsRunningInContainer(world),
                                                !.isECS = IsRunningInECS(world),
                                                !.probed = TRUE,
                                                !.late = (firstReturned # Null)]]
            /\ probeRuns' = probeRuns + 1
            /\ UNCHANGED firstReturned
    /\ UNCHANGED <<parseVars, world, environmentInfo, call, cacheWrites, worldChanges>>

\* line 66: resumed with isECS, runs the EKS probe
DetectAfterECS(c) ==
    /\ calls[c].pc = "awaitECS"
    /\ calls' = [calls EXCEPT ![c].pc = "awaitEKS", ![c].isEKS = IsRunningInEKS(world)]
    /\ UNCHANGED <<parseVars, world, environmentInfo, call, probeRuns, cacheWrites,
                   firstReturned, worldChanges>>

\* line 67: resumed with isEKS, starts 'aws --version'
DetectAfterEKS(c) ==
    /\ calls[c].pc = "awaitEKS"
    /\ calls' = [calls EXCEPT ![c].pc = "awaitCli"]
    /\ UNCHANGED <<parseVars, world, environmentInfo, call, probeRuns, cacheWrites,
                   firstReturned, worldChanges>>

\* line 68: the CLI command has ended; starts the metadata request
DetectAfterCli(c) ==
    /\ calls[c].pc = "awaitCli"
    /\ CliEnds(world)
    /\ calls' = [calls EXCEPT ![c].pc = "awaitIam", ![c].hasAwsCli = IsAwsCliAvailable(world)]
    /\ UNCHANGED <<parseVars, world, environmentInfo, call, probeRuns, cacheWrites,
                   firstReturned, worldChanges>>

\* line 70-79: the metadata request has ended; assigns the cache and returns it
DetectAfterIam(c) ==
    /\ calls[c].pc = "awaitIam"
    /\ LET info == [isContainer |-> calls[c].isContainer,
                    isECS |-> calls[c].isECS,
                    isEKS |-> calls[c].isEKS,
                    hasAwsCli |-> calls[c].hasAwsCli,
                    hasIamRole |-> HasIamRoleAttached(world)]
       IN  /\ environmentInfo' = info
           /\ calls' = [calls EXCEPT ![c].pc = "done", ![c].env = info]
           /\ firstReturned' = IF firstReturned = Null THEN info ELSE firstReturned
    /\ cacheWrites' = cacheWrites + 1
    /\ UNCHANGED <<parseVars, world, call, probeRuns, worldChanges>>

\* the caller has taken the result; it may call again
DetectReturn(c) ==
    /\ calls[c].pc = "done"
    /\ calls' = [calls EXCEPT ![c] = IdleDetect]
    /\ UNCHANGED <<parseVars, world, environmentInfo, call, probeRuns, cacheWrites,
                   firstReturned, worldChanges>>

\* the host changes under the running process: one probe would now answer differently
WorldChange ==
    /\ worldChanges < MaxWorldChanges
    /\ \E w \in Worlds :
          /\ Cardinality({k \in DOMAIN w : w[k] # world[k]}) = 1
          /\ world' = w
    /\ worldChanges' = worldChanges + 1
    /\ UNCHANGED <<parseVars, environmentInfo, call, calls, probeRuns, cacheWrites,
                   firstReturned>>

(***************************************************************************)
(* SpecParse: each version of the parser applied once to the raw input.    *)
(***************************************************************************)
ParseSSO ==
    /\ parsed.by = "none"
    /\ parsed' = ParseAndValidateConfigSSO(raw)
    /\ UNCHANGED <<raw, serverEnv, reparsed, client, serviceVars>>

ParseEnv ==
    /\ parsed.by = "none"
    /\ parsed' = ParseAndValidateConfigEnv(raw, serverEnv)
    /\ UNCHANGED <<raw, serverEnv, reparsed, client, serviceVars>>

ParseChain ==
    /\ parsed.by = "none"
    /\ parsed' = ParseAndValidateConfigChain(raw)
    /\ UNCHANGED <<raw, serverEnv, reparsed, client, serviceVars>>

\* the SSO-aware parser applied to JSON.stringify of the config it returned
ReparseSSO ==
    /\ parsed.by = "sso"
    /\ ~parsed.threw
    /\ reparsed.by = "none"
    /\ reparsed' = ParseAndValidateConfigSSO(JSONStringify(parsed.config))
    /\ UNCHANGED <<raw, serverEnv, parsed, client, serviceVars>>

(***************************************************************************)
(* Initial states and specifications.                                      *)
(***************************************************************************)
DevHost == [dockerenv |-> FALSE, cgroup |-> "absent", ecsVars |-> "none", k8sToken |-> FALSE,
            k8sHost |-> TRUE, awsCli |-> "ok", imds |-> "timeout"]

ServiceStart ==
    /\ environmentInfo = Null
    /\ call = IdleCall
    /\ calls = [c \in Callers |-> IdleDetect]
    /\ probeRuns = 0
    /\ cacheWrites = 0
    /\ firstReturned = Null
    /\ worldChanges = 0

ParserUnused ==
    /\ raw = NoRaw
    /\ serverEnv = EmptyObj
    /\ parsed = NotParsed
    /\ reparsed = NotParsed
    /\ client = NoModel

Init ==
    /\ world \in Worlds
    /\ ServiceStart
    /\ ParserUnused

Next ==
    \/ DetectEnvironmentCall
    \/ GetCredentialsCall
    \/ CheckCredentialStatusCall
    \/ GetAvailableProfilesCall
    \/ SSOGetAvailableProfilesCall
    \/ InitiateSSORLoginCall
    \/ LoginRouteCall
    \/ Return

Spec == Init /\ [][Next]_vars

InitEnv ==
    /\ world \in Worlds
    /\ ServiceStart
    /\ ParserUnused

NextEnv ==
    \/ \E c \in Callers :
          \/ DetectStart(c)
          \/ DetectAfterECS(c)
          \/ DetectAfterEKS(c)
          \/ DetectAfterCli(c)
          \/ DetectAfterIam(c)
          \/ DetectReturn(c)
    \/ WorldChange

SpecEnv == InitEnv /\ [][NextEnv]_vars

InitParse ==
    /\ raw \in RawInputs
    /\ serverEnv \in ServerEnvs
    /\ parsed = NotParsed
    /\ reparsed = NotParsed
    /\ client = NoModel
    /\ world = DevHost
    /\ ServiceStart

\* SpecSSO: the operations of AWSSSOService, on a host with and without the CLI
InitSSO ==
    /\ world \in {DevHost, [DevHost EXCEPT !.awsCli = "missing"]}
    /\ ServiceStart
    /\ ParserUnused

NextSSO == LoginSSOCall \/ GetAWSConfigCall \/ Return

SpecSSO == InitSSO /\ [][NextSSO]_vars

\* SpecModel: getModelInstance on a raw config, then the client asking for credentials
ECSHost == [DevHost EXCEPT !.dockerenv = TRUE, !.ecsVars = "ECS_CONTAINER_METADATA_URI"]

InitModel ==
    /\ raw \in ModelRaws
    /\ serverEnv = EmptyObj
    /\ parsed = NotParsed
    /\ reparsed = NotParsed
    /\ client = NoModel
    /\ world \in {DevHost, ECSHost}
    /\ ServiceStart

NextModel == GetModelInstanceCall \/ InvokeCredentials \/ ModelReturn

SpecModel == InitModel /\ [][NextModel]_vars

\* SpecHang: overlapping detectEnvironment calls on hosts where 'aws --version' may
\* never exit and the metadata endpoint may never answer (imds "timeout": the abort
\* after 1 s ends the request).  The event loop resumes every call whose awaited
\* promise has settled.
HangHosts == [dockerenv : BOOLEAN,
              cgroup : {"absent"},
              ecsVars : {"none", "ECS_CONTAINER_METADATA_URI"},
              k8sToken : BOOLEAN,
              k8sHost : {TRUE},
              awsCli : {"ok", "missing", "hangs"},
              imds : {"ok", "timeout"}]

InitHang ==
    /\ world \in HangHosts
    /\ ServiceStart
    /\ ParserUnused

NextHang ==
    \E c \in Callers :
       \/ DetectStart(c)
       \/ DetectAfterECS(c)
       \/ DetectAfterEKS(c)
       \/ DetectAfterCli(c)
       \/ DetectAfterIam(c)
       \/ DetectReturn(c)

Resumed ==
    \A c \in Callers :
       /\ WF_vars(DetectAfterECS(c))
       /\ WF_vars(DetectAfterEKS(c))
       /\ WF_vars(DetectAfterCli(c))
       /\ WF_vars(DetectAfterIam(c))

SpecHang == InitHang /\ [][NextHang]_vars /\ Resumed

\* SpecProbe: detectEnvironment on every host of ProbeHosts
InitProbe ==
    /\ world \in ProbeHosts
    /\ ServiceStart
    /\ ParserUnused

NextProbe == DetectEnvironmentCall \/ Return

SpecProbe == InitProbe /\ [][NextProbe]_vars

NextParse == ParseSSO \/ ParseEnv \/ ParseChain \/ ReparseSSO

SpecParse == InitParse /\ [][NextParse]_vars

(***************************************************************************)
(* Properties.                                                             *)
(***************************************************************************)
Callees(trace) == {trace[i].callee : i \in DOMAIN trace}

Carries(error, msg) == \E i \in DOMAIN error : error[i] = msg

ResolverCallDone == call.pc = "done" /\ call.op \in {"getCredentials", "checkCredentialStatus"}

PlatformRoleEnv(env) == env.isContainer /\ (env.isECS \/ env.isEKS \/ env.hasIamRole)

HasStaticKeys(config) ==
    Truthy(Get(config, "accessKeyId")) /\ Truthy(Get(config, "secretAccessKey"))

\* C1: in a container with an ECS, EKS or IAM-role signal, getCredentials takes the
\* platform-role strategy whatever the config says: its only provider is the node
\* provider chain, never the ini or SSO provider, and a credential it returns is the
\* chain's, never the config's static keys.
C1_PlatformRoleOutranksConfig ==
    (ResolverCallDone /\ PlatformRoleEnv(call.env)) =>
        /\ call.strategy = "production"
        /\ Len(call.trace) >= 1
        /\ call.trace[1].callee = "fromNodeProviderChain"
        /\ Callees(call.trace) \cap {"fromIni", "fromSSO"} = {}
        /\ call.cred # NoCred =>
              /\ call.cred = ChainCredentials
              /\ call.cred.accessKeyId # Get(call.config, "accessKeyId")
              /\ call.cred.secretAccessKey # Get(call.config, "secretAccessKey")

C1_Witness ==
    /\ call.pc = "done"
    /\ call.op = "getCredentials"
    /\ call.env.isContainer
    /\ call.env.isECS
    /\ Get(call.config, "authType") = "static"
    /\ HasStaticKeys(call.config)
    /\ ~call.threw
    /\ call.cred = ChainCredentials

\* the identity check that getProductionCredentials runs on the chain's credential failed
ValidationFailed ==
    /\ ResolverCallDone
    /\ call.strategy = "production"
    /\ Len(call.trace) >= 2
    /\ call.trace[2] = Ext("sts:GetCallerIdentity", FALSE)

\* C2: when the platform-role strategy is selected and the identity check of
\* validateCredentials fails, getCredentials throws an error carrying 'Credential
\* validation failed' (inside the 'AWS credential resolution failed' wrapper): no
\* credential comes back and nothing is called after the failed check.
C2_ValidationFailureAborts ==
    ValidationFailed =>
        /\ call.cred = NoCred
        /\ call.trace = <<Ext("fromNodeProviderChain", TRUE), Ext("sts:GetCallerIdentity", FALSE)>>
        /\ call.op = "getCredentials" =>
              /\ call.threw
              /\ call.error = <<MsgResolutionFailed, MsgValidationFailed, MsgStsError>>
        /\ call.op = "checkCredentialStatus" =>
              /\ ~call.status.available
              /\ Carries(call.status.error, MsgValidationFailed)

C2_Witness ==
    /\ ValidationFailed
    /\ call.op = "getCredentials"
    /\ HasStaticKeys(call.config)
    /\ call.threw
    /\ Carries(call.error, MsgValidationFailed)

\* C3: however detectEnvironment calls overlap, the probe set is run at most once in
\* the process and the cached EnvironmentInfo is assigned at most once.
C3_ProbedAndWrittenAtMostOnce == probeRuns <= 1 /\ cacheWrites <= 1

\* C4: once a detectEnvironment call has completed, the cached value is never cleared
\* or replaced, and every call started later returns that value and runs no probe.
C4_CacheIsSticky ==
    firstReturned # Null =>
        /\ environmentInfo = firstReturned
        /\ \A c \in Callers :
              (calls[c].pc = "done" /\ calls[c].late) =>
                  (calls[c].env = firstReturned /\ ~calls[c].probed)

\* some step of a checkCredentialStatus call failed
StatusCallFailed ==
    \/ \E i \in DOMAIN call.trace : ~call.trace[i].ok
    \/ /\ call.strategy = "sso"
       /\ ~Truthy(Get(call.config, "profile"))
       /\ ~Truthy(Get(call.config, "ssoStartUrl"))

\* the message of the step that failed
FailureMessage ==
    IF call.trace = <<>> THEN MsgSSORequires
    ELSE IF call.trace[Len(call.trace)].callee = "sts:GetCallerIdentity" THEN MsgStsError
    ELSE MsgProviderError

\* C5: checkCredentialStatus never throws; whenever resolution or an identity check
\* fails it returns available=false, method 'none' and the failure's message in error.
C5_StatusNeverThrows ==
    (call.pc = "done" /\ call.op = "checkCredentialStatus") =>
        /\ ~call.threw
        /\ call.status # NoStatus
        /\ StatusCallFailed =>
              /\ call.status.available = FALSE
              /\ call.status.method = "none"
              /\ call.status.identity = NoIdentity
              /\ call.status.error # <<>>
              /\ call.status.error[Len(call.status.error)] = FailureMessage

C5_Witness ==
    /\ call.pc = "done"
    /\ call.op = "checkCredentialStatus"
    /\ call.strategy = "fallback"
    /\ call.trace = <<Ext("sts:GetCallerIdentity", FALSE)>>
    /\ call.status = Unavailable(<<MsgStsError>>)

RawObject == raw.kind = "object"

OneStaticKeyOnly ==
    Truthy(Prop(raw, "accessKeyId")) # Truthy(Prop(raw, "secretAccessKey"))

\* C6: a config with no authType and exactly one of accessKeyId, secretAccessKey is
\* rejected with IncompleteStaticCredentials; the parser never returns one key alone.
C6_HalfStaticKeysRejected ==
    (parsed.by \in {"sso", "env"} /\ RawObject /\ "authType" \notin DOMAIN raw.obj
       /\ OneStaticKeyOnly) =>
        /\ parsed.threw
        /\ ErrorKind(parsed.error) = "IncompleteStaticCredentials"

\* C7: with a region and authType 'sso' the parser succeeds exactly when profile is
\* set or both ssoStartUrl and ssoRegion are, and otherwise fails with
\* IncompleteSSOConfig; with authType 'auto' it succeeds without any of them.
C7_SSOConfigNeedsProfileOrDetails ==
    (parsed.by = "sso" /\ RawObject /\ Truthy(Prop(raw, "region"))) =>
        /\ Prop(raw, "authType") = "sso" =>
              /\ ~parsed.threw <=>
                    \/ Truthy(Prop(raw, "profile"))
                    \/ Truthy(Prop(raw, "ssoStartUrl")) /\ Truthy(Prop(raw, "ssoRegion"))
              /\ parsed.threw => ErrorKind(parsed.error) = "IncompleteSSOConfig"
        /\ Prop(raw, "authType") = "auto" =>
              /\ ~parsed.threw
              /\ Get(parsed.config, "authType") = "auto"
              /\ Get(parsed.config, "region") = Prop(raw, "region")

C7_Witness ==
    /\ parsed.by = "sso"
    /\ RawObject
    /\ Prop(raw, "authType") = "sso"
    /\ Truthy(Prop(raw, "region"))
    /\ ~Truthy(Prop(raw, "profile"))
    /\ Truthy(Prop(raw, "ssoStartUrl"))
    /\ ~Truthy(Prop(raw, "ssoRegion"))
    /\ parsed.threw
    /\ ErrorKind(parsed.error) = "IncompleteSSOConfig"

NoEnvRegion == \A k \in {"AWS_BEDROCK_REGION", "AWS_REGION", "AWS_DEFAULT_REGION"} :
                  ~Truthy(Get(serverEnv, k))

\* C8: a config without region, with no region variable supplied, is rejected with
\* MissingRegion whatever its authType and other fields.
C8_MissingRegionRejected ==
    (parsed.by \in {"sso", "env"} /\ RawObject /\ ~Truthy(Prop(raw, "region"))
       /\ NoEnvRegion) =>
        /\ parsed.threw
        /\ ErrorKind(parsed.error) = "MissingRegion"

\* C9: a raw input that is not a JSON object (not JSON at all, or JSON null, array,
\* string or number) is rejected with MalformedConfig.
C9_NonObjectIsMalformed ==
    (parsed.by = "sso" /\ ~RawObject) =>
        /\ parsed.threw
        /\ ErrorKind(parsed.error) = "MalformedConfig"

\* C10: the parsed region is the config's own region when it has one, else the first
\* of AWS_BEDROCK_REGION, AWS_REGION, AWS_DEFAULT_REGION that is set; MissingRegion is
\* raised only when all four are missing, and '{}' parses to the region alone.
C10_RegionFallbackOrder ==
    (parsed.by = "env" /\ RawObject) =>
        LET own == Prop(raw, "region")
            bedrock == Get(serverEnv, "AWS_BEDROCK_REGION")
            region == Get(serverEnv, "AWS_REGION")
            default == Get(serverEnv, "AWS_DEFAULT_REGION")
            got == Get(parsed.config, "region")
        IN  /\ parsed.threw <=>
                  (~Truthy(own) /\ ~Truthy(bedrock) /\ ~Truthy(region) /\ ~Truthy(default))
            /\ parsed.threw => ErrorKind(parsed.error) = "MissingRegion"
            /\ Truthy(own) => got = own
            /\ (~Truthy(own) /\ Truthy(bedrock)) => got = bedrock
            /\ (~Truthy(own) /\ ~Truthy(bedrock) /\ Truthy(region)) => got = region
            /\ (~Truthy(own) /\ ~Truthy(bedrock) /\ ~Truthy(region) /\ Truthy(default)) =>
                  got = default
            /\ (raw.obj = EmptyObj /\ Truthy(bedrock)) =>
                  parsed.config = [k \in {"region"} |-> bedrock]

C10_Witness ==
    /\ parsed.by = "env"
    /\ RawObject
    /\ raw.obj = EmptyObj
    /\ Truthy(Get(serverEnv, "AWS_BEDROCK_REGION"))
    /\ Truthy(Get(serverEnv, "AWS_REGION"))
    /\ parsed.config = [k \in {"region"} |-> "us-west-2"]

ConfigFields == {"authType", "region", "profile", "ssoStartUrl", "ssoRegion", "ssoAccountId",
                 "ssoRoleName", "accessKeyId", "secretAccessKey", "sessionToken"}

\* C11: whenever the SSO-aware parser succeeds on a raw input with config c, it also
\* succeeds on JSON.stringify(c) and returns a config that agrees with c on every
\* field, an absent field counting as undefined; static, sso and auto alike.
C11_ParseStringifyRoundTrip ==
    reparsed.by = "sso" =>
        /\ ~reparsed.threw
        /\ \A k \in ConfigFields \cup DOMAIN parsed.config \cup DOMAIN reparsed.config :
              Get(reparsed.config, k) = Get(parsed.config, k)

C11_Witness ==
    /\ reparsed.by = "sso"
    /\ ~reparsed.threw
    /\ Get(parsed.config, "authType") = "sso"
    /\ "profile" \in DOMAIN parsed.config
    /\ Get(parsed.config, "profile") = Undef
    /\ Get(reparsed.config, "ssoStartUrl") = Prop(raw, "ssoStartUrl")
    /\ Truthy(Prop(raw, "ssoStartUrl"))

\* a completed getCredentials call for which neither the platform-role nor the
\* local-SSO condition held
FallbackCase ==
    /\ call.pc = "done"
    /\ call.op = "getCredentials"
    /\ ~PlatformRoleEnv(call.env)
    /\ ~(call.env.hasAwsCli /\ Get(call.config, "authType") = "sso")

ConfigKeysReturned ==
    /\ ~call.threw
    /\ call.cred.accessKeyId = Get(call.config, "accessKeyId")
    /\ call.cred.secretAccessKey = Get(call.config, "secretAccessKey")
    /\ call.cred.sessionToken = Get(call.config, "sessionToken")
    /\ call.trace = <<>>

DefaultChainUsed ==
    /\ Len(call.trace) = 1
    /\ call.trace[1].callee = "fromNodeProviderChain"
    /\ ~call.threw => call.cred = ChainCredentials

LocalSSOCondition == call.env.hasAwsCli /\ Get(call.config, "authType") = "sso"

\* C13: when the platform-role condition is false, getCredentials enters the SSO
\* strategy exactly when the CLI is available and authType is 'sso' (an sso config
\* without the CLI goes to fallback); inside it the profile provider is the one used
\* whenever profile is set, ssoStartUrl set or not, and the direct SSO provider is
\* used only when profile is absent.
C13_SSOStrategySelection ==
    (call.pc = "done" /\ call.op = "getCredentials" /\ ~PlatformRoleEnv(call.env)) =>
        /\ call.strategy = "sso" <=> LocalSSOCondition
        /\ call.strategy # "sso" => call.strategy = "fallback"
        /\ Callees(call.trace) \cap {"fromIni", "fromSSO"} # {} => LocalSSOCondition
        /\ LocalSSOCondition =>
              /\ Truthy(Get(call.config, "profile")) => Callees(call.trace) = {"fromIni"}
              /\ "fromSSO" \in Callees(call.trace) => ~Truthy(Get(call.config, "profile"))
              /\ (~Truthy(Get(call.config, "profile"))
                    /\ Truthy(Get(call.config, "ssoStartUrl"))) =>
                    Callees(call.trace) = {"fromSSO"}
              /\ "fromNodeProviderChain" \notin Callees(call.trace)
        /\ ~LocalSSOCondition => Callees(call.trace) \subseteq {"fromNodeProviderChain"}

C13_Witness ==
    /\ call.pc = "done"
    /\ call.op = "getCredentials"
    /\ ~PlatformRoleEnv(call.env)
    /\ LocalSSOCondition
    /\ Truthy(Get(call.config, "profile"))
    /\ Truthy(Get(call.config, "ssoStartUrl"))
    /\ call.trace = <<Ext("fromIni", TRUE)>>
    /\ call.cred = IniCredentials

\* a provider call or the identity validation of a getCredentials call failed
StrategyStepFailed ==
    /\ call.pc = "done"
    /\ call.op = "getCredentials"
    /\ \E i \in DOMAIN call.trace : ~call.trace[i].ok

\* C14: whenever the provider call or the identity validation of the selected
\* strategy fails, getCredentials throws 'AWS credential resolution failed' followed
\* by the message of the error that failed it, the failed call is the last call made,
\* and no credential is returned.
C14_FailureIsWrappedNotSwallowed ==
    StrategyStepFailed =>
        /\ call.threw
        /\ call.cred = NoCred
        /\ call.error[1] = MsgResolutionFailed
        /\ Len(call.error) >= 2
        /\ call.error[Len(call.error)] = FailureMessage
        /\ \A i \in DOMAIN call.trace : ~call.trace[i].ok => i = Len(call.trace)

C14_Witness ==
    /\ StrategyStepFailed
    /\ call.strategy = "sso"
    /\ call.trace = <<Ext("fromIni", FALSE)>>
    /\ call.error = <<MsgResolutionFailed, MsgProviderError>>
    /\ call.cred = NoCred

RoleMethods == {"ECS Task Role", "EKS Service Account", "EC2 Instance Profile"}

\* C15: when checkCredentialStatus succeeds, the method it reports names the strategy
\* that produced the credential: a role method only when the platform-role strategy
\* ran, 'AWS SSO' only when the local-SSO strategy ran, 'Static Credentials' only
\* when the config's static keys were returned, 'Default Credential Chain' otherwise.
C15_MethodNamesStrategyThatRan ==
    (call.pc = "done" /\ call.op = "checkCredentialStatus" /\ call.status.available) =>
        /\ call.status.method \in RoleMethods <=> call.strategy = "production"
        /\ call.status.method = "AWS SSO" <=> call.strategy = "sso"
        /\ call.status.method = "Static Credentials" <=>
              (call.strategy = "fallback" /\ HasStaticKeys(call.config))
        /\ call.status.method = "Default Credential Chain" <=>
              (call.strategy = "fallback" /\ ~HasStaticKeys(call.config))

\* C19: detectEnvironment never throws: whichever probes fail (unreadable cgroup
\* file, missing CLI, metadata endpoint error or timeout) it returns an
\* EnvironmentInfo in which the flag of each failed probe is false and every other
\* flag is what its own probe found.
C19_DetectEnvironmentNeverThrows ==
    (call.pc = "done" /\ call.op = "detectEnvironment") =>
        /\ ~call.threw
        /\ call.env # Null
        /\ environmentInfo = call.env
        /\ call.env.isContainer <=> (world.dockerenv \/ world.cgroup = "docker")
        /\ call.env.isECS <=> world.ecsVars \in {"AWS_EXECUTION_ENV=AWS_ECS_FARGATE",
                                                 "ECS_CONTAINER_METADATA_URI",
                                                 "ECS_CONTAINER_METADATA_URI_V4"}
        /\ call.env.isEKS <=> (world.k8sToken /\ world.k8sHost)
        /\ call.env.hasAwsCli <=> world.awsCli = "ok"
        /\ call.env.hasIamRole <=> world.imds = "ok"

C19_Witness ==
    /\ call.pc = "done"
    /\ call.op = "detectEnvironment"
    /\ ~world.dockerenv
    /\ world.cgroup = "unreadable"
    /\ world.awsCli = "missing"
    /\ world.imds = "timeout"
    /\ world.k8sToken
    /\ world.k8sHost
    /\ call.env = [isContainer |-> FALSE, isECS |-> FALSE, isEKS |-> TRUE,
                    hasAwsCli |-> FALSE, hasIamRole |-> FALSE]

StatusOrProfilesOps == {"checkCredentialStatus", "getAvailableProfiles"}

\* C16 as stated: a checkCredentialStatus or getAvailableProfiles call leaves the
\* service state as it found it: the cached EnvironmentInfo is the same after the
\* call as before, still unset if it was unset.
C16_StatusCallsLeaveCacheAsFound ==
    [][(call'.pc = "done" /\ call'.op \in StatusOrProfilesOps) =>
          environmentInfo' = environmentInfo]_vars

\* C16 amended: a checkCredentialStatus or getAvailableProfiles call changes no
\* service state except that, finding the cached EnvironmentInfo unset, it fills it
\* with the detected environment; finding it set, it leaves it as it is.
C16_StatusCallsOnlyFillUnsetCache ==
    [][(call'.pc = "done" /\ call'.op \in StatusOrProfilesOps) =>
          /\ environmentInfo # Null => environmentInfo' = environmentInfo
          /\ environmentInfo = Null =>
                (environmentInfo' = ProbeAll(world) /\ environmentInfo' = call'.env)
          /\ world' = world]_vars

C16_Witness ==
    /\ call.pc = "done"
    /\ call.op = "getAvailableProfiles"
    /\ probeRuns = 1
    /\ cacheWrites = 1
    /\ firstReturned = call.env
    /\ environmentInfo = call.env
    /\ environmentInfo = ProbeAll(world)

\* C17: when the detected environment has isContainer = true, AWSCredentialService's
\* getAvailableProfiles returns the empty sequence whatever ~/.aws/config holds, and
\* makes no file-system call.
C17_NoProfilesInContainer ==
    (call.pc = "done" /\ call.op = "getAvailableProfiles" /\ call.env.isContainer) =>
        /\ call.profiles = <<>>
        /\ call.trace = <<>>
        /\ ~call.threw

C17_Witness ==
    /\ call.pc = "done"
    /\ call.op = "getAvailableProfiles"
    /\ call.env.isContainer
    /\ call.file.state = "ok"
    /\ call.file.lines = <<LineDefault, LineProfileDev>>
    /\ call.profiles = <<>>

NameDev == <<"d", "e", "v">>
NameProd == <<"p", "r", "o", "d">>

\* the name a line declares when it is a well-formed header, by the line itself
HeaderNames(line) ==
    CASE line = LineDefault             -> <<DefaultName>>
      [] line = LineProfileDev          -> <<NameDev>>
      [] line = LineProfileProdIndented -> <<NameProd>>
      [] OTHER                          -> <<>>

RECURSIVE HeaderNamesIn(_)
HeaderNamesIn(lines) ==
    IF lines = <<>> THEN <<>> ELSE HeaderNames(Head(lines)) \o HeaderNamesIn(Tail(lines))

\* a getAvailableProfiles call, of either service, that read the file
ProfilesFileRead ==
    /\ call.pc = "done"
    /\ call.op \in {"getAvailableProfiles", "sso.getAvailableProfiles"}
    /\ Ext("fs.readFileSync", TRUE) \in {call.trace[i] : i \in DOMAIN call.trace}

\* C18: whatever the lines of the file, getAvailableProfiles returns a name only for
\* a well-formed '[default]' or '[profile NAME]' header: a malformed header adds no
\* entry, and no returned name is a truncated or altered one.
C18_OnlyWellFormedHeadersListed ==
    ProfilesFileRead =>
        /\ Len(call.profiles) <= Len(HeaderNamesIn(call.file.lines))
        /\ \A i \in DOMAIN call.profiles :
              \E j \in DOMAIN HeaderNamesIn(call.file.lines) :
                  call.profiles[i] = HeaderNamesIn(call.file.lines)[j]

\* C20: AWSSSOService.getAvailableProfiles returns the profile names in the order of
\* their headers, 'default' for '[default]' and NAME for '[profile NAME]', one entry
\* per header; it returns the empty list when the file is missing or cannot be read,
\* and never throws.
C20_SSOProfilesInHeaderOrder ==
    (call.pc = "done" /\ call.op = "sso.getAvailableProfiles") =>
        /\ ~call.threw
        /\ call.file.state # "ok" => call.profiles = <<>>
        /\ call.file.state = "ok" => call.profiles = HeaderNamesIn(call.file.lines)

C20_Witness ==
    /\ call.pc = "done"
    /\ call.op = "sso.getAvailableProfiles"
    /\ call.file.state = "ok"
    /\ call.file.lines = <<LineProfileProdIndented, LineDefault>>
    /\ call.profiles = <<NameProd, DefaultName>>

Providers == {"fromNodeProviderChain", "fromIni", "fromSSO"}

ProviderCalls(trace) == {i \in DOMAIN trace : trace[i].callee \in Providers}

GetCredentialsDone == call.pc = "done" /\ call.op = "getCredentials"

\* C23: in every getCredentials call exactly one of the three strategies is entered,
\* its credential provider is called at most once, and a failure ends the call with
\* an error: no provider of another strategy is called and no call is repeated.
C23_OneStrategyNoRetry ==
    GetCredentialsDone =>
        /\ call.strategy \in {"production", "sso", "fallback"}
        /\ Cardinality(ProviderCalls(call.trace)) <= 1
        /\ call.strategy = "production" =>
              Callees(call.trace) \subseteq {"fromNodeProviderChain", "sts:GetCallerIdentity"}
        /\ call.strategy = "sso" => Callees(call.trace) \subseteq {"fromIni", "fromSSO"}
        /\ call.strategy = "fallback" => Callees(call.trace) \subseteq {"fromNodeProviderChain"}
        /\ \A i \in DOMAIN call.trace :
              ~call.trace[i].ok => (i = Len(call.trace) /\ call.threw /\ call.cred = NoCred)
        /\ \A i, j \in DOMAIN call.trace : call.trace[i].callee = call.trace[j].callee => i = j

C23_Witness ==
    /\ GetCredentialsDone
    /\ call.strategy = "production"
    /\ HasStaticKeys(call.config)
    /\ call.trace = <<Ext("fromNodeProviderChain", FALSE)>>
    /\ call.threw

\* C24: all detectEnvironment calls of one process return the same EnvironmentInfo,
\* overlapping first callers included: every call that has returned holds the value
\* the first completed call returned, which is the value in the cache.
C24_AllCallersSeeFirstValue ==
    \A c \in Callers :
        calls[c].pc = "done" => (calls[c].env = firstReturned /\ environmentInfo = firstReturned)

\* the local-SSO strategy ran on a config the parser would reject as incomplete
SSOSelectedIncomplete ==
    /\ GetCredentialsDone
    /\ call.strategy = "sso"
    /\ ~Truthy(Get(call.config, "profile"))
    /\ ~(Truthy(Get(call.config, "ssoStartUrl")) /\ Truthy(Get(call.config, "ssoRegion")))

\* C25: when the local-SSO strategy is selected for a config with no profile and
\* without both ssoStartUrl and ssoRegion, getCredentials fails with the incomplete
\* SSO configuration error and calls no credential provider.
C25_ResolverRejectsIncompleteSSO ==
    SSOSelectedIncomplete =>
        /\ call.threw
        /\ Carries(call.error, MsgSSORequires)
        /\ call.trace = <<>>
        /\ call.cred = NoCred

\* the strategy's provider handed a credential to getCredentials
CredentialObtained ==
    \E i \in ProviderCalls(call.trace) : call.trace[i].ok

\* C26: inside getCredentials an identity check is made exactly when the
\* platform-role strategy was selected (and its provider returned a credential): it
\* is the call right after the provider's and before the return; the local-SSO and
\* fallback strategies return their credential with no identity check.
C26_IdentityCheckOnlyForPlatformRole ==
    GetCredentialsDone =>
        /\ "sts:GetCallerIdentity" \in Callees(call.trace) => call.strategy = "production"
        /\ (call.strategy = "production" /\ CredentialObtained) =>
              /\ Len(call.trace) = 2
              /\ call.trace[1] = Ext("fromNodeProviderChain", TRUE)
              /\ call.trace[2].callee = "sts:GetCallerIdentity"
              /\ ~call.threw <=> call.trace[2].ok
        /\ (call.strategy \in {"sso", "fallback"} /\ ~call.threw) =>
              /\ call.cred # NoCred
              /\ "sts:GetCallerIdentity" \notin Callees(call.trace)

C26_Witness ==
    /\ GetCredentialsDone
    /\ call.strategy = "production"
    /\ call.trace = <<Ext("fromNodeProviderChain", TRUE), Ext("sts:GetCallerIdentity", TRUE)>>
    /\ call.cred = ChainCredentials
    /\ ~call.threw

\* C30: every status returned by checkCredentialStatus is either available with a
\* method other than 'none', the identity of an identity check that succeeded in
\* this call and no error, or unavailable with method 'none', an error message and
\* no identity; a credential that resolves but fails the identity check is
\* reported unavailable.
C30_StatusHasOneOfTwoShapes ==
    (call.pc = "done" /\ call.op = "checkCredentialStatus") =>
        /\ call.status.available =>
              /\ call.status.method \notin {"none", ""}
              /\ call.status.identity = CallerIdentity
              /\ call.status.error = <<>>
              /\ call.trace # <<>>
              /\ call.trace[Len(call.trace)] = Ext("sts:GetCallerIdentity", TRUE)
        /\ ~call.status.available =>
              /\ call.status.method = "none"
              /\ call.status.identity = NoIdentity
              /\ call.status.error # <<>>
        /\ (call.trace # <<>> /\ call.trace[Len(call.trace)] = Ext("sts:GetCallerIdentity", FALSE))
              => ~call.status.available

C30_Witness ==
    /\ call.pc = "done"
    /\ call.op = "checkCredentialStatus"
    /\ call.strategy = "sso"
    /\ call.trace = <<Ext("fromIni", TRUE), Ext("sts:GetCallerIdentity", FALSE)>>
    /\ call.status = Unavailable(<<MsgStsError>>)

LoginCommands == {"aws sso login", "aws sso login --profile dev"}

LoginCallDone == call.pc = "done" /\ call.op \in {"initiateSSORLogin", "loginRoute"}

\* C29: initiateSSORLogin and the login route execute 'aws sso login' only when the
\* detected environment has isContainer = false and hasAwsCli = true; in every other
\* environment the call fails (initiateSSORLogin throws, the route answers 400) and
\* no login command is executed.
C29_LoginOnlyOnDevHostWithCli ==
    LoginCallDone =>
        /\ Callees(call.trace) \subseteq LoginCommands
        /\ call.trace # <<>> => (~call.env.isContainer /\ call.env.hasAwsCli)
        /\ (call.env.isContainer \/ ~call.env.hasAwsCli) =>
              /\ call.trace = <<>>
              /\ call.op = "initiateSSORLogin" => (call.threw /\ call.error # <<>>)
              /\ (call.op = "loginRoute" /\ call.input.method = "POST" /\ call.input.bodyOk)
                    => call.http = HttpBadRequest
        /\ (call.op = "initiateSSORLogin" /\ ~call.env.isContainer /\ call.env.hasAwsCli) =>
              Len(call.trace) = 1

C29_Witness ==
    /\ call.pc = "done"
    /\ call.op = "loginRoute"
    /\ call.input.method = "POST"
    /\ call.input.bodyOk
    /\ call.env.isContainer
    /\ call.env.hasAwsCli
    /\ call.http = HttpBadRequest
    /\ call.trace = <<>>

LoginSSODone == call.pc = "done" /\ call.op = "sso.loginSSO"

\* the command loginSSO is to run for the profile it was given
ExpectedLoginCommand ==
    IF call.input.profile = "dev" THEN "aws sso login --profile dev" ELSE "aws sso login"

\* C21: loginSSO runs exactly 'aws sso login' when no profile is given and 'aws sso
\* login --profile <profile>' otherwise; it resolves when the command succeeds and
\* rejects with a message starting with 'AWS SSO login failed' whenever the CLI is
\* unavailable, the command fails or its stderr contains 'error'; without the CLI
\* the login command is never executed.
C21_LoginSSOCommandAndFailures ==
    LoginSSODone =>
        /\ Callees(call.trace) \subseteq {"aws --version", ExpectedLoginCommand}
        /\ world.awsCli = "missing" => call.trace = <<Ext("aws --version", FALSE)>>
        /\ world.awsCli = "ok" =>
              call.trace = <<Ext("aws --version", TRUE),
                             Ext(ExpectedLoginCommand, call.input.execOk)>>
        /\ call.threw <=>
              \/ world.awsCli = "missing"
              \/ ~call.input.execOk
              \/ call.input.stderr = <<"An", "error", "occurred">>
        /\ call.threw => (call.error # <<>> /\ call.error[1] = MsgLoginFailed)

C21_Witness ==
    /\ LoginSSODone
    /\ world.awsCli = "ok"
    /\ call.input.profile = "dev"
    /\ call.input.execOk
    /\ call.input.stderr = <<"An", "error", "occurred">>
    /\ call.trace = <<Ext("aws --version", TRUE), Ext("aws sso login --profile dev", TRUE)>>
    /\ call.threw

AWSConfigDone == call.pc = "done" /\ call.op = "sso.getAWSConfig"

RequestedProfile == IF call.input.profile = <<>> THEN DefaultName ELSE call.input.profile[1]

\* the sections of the file that make up the requested profile's section: the first
\* one under the requested header and those under the same header right after it
RequestedSections ==
    LET secs == call.file.sections
    IN  {i \in DOMAIN secs :
            /\ secs[i].name = RequestedProfile
            /\ \A j \in 1..i : (\E k \in 1..j : secs[k].name = RequestedProfile) =>
                                  secs[j].name = RequestedProfile}

\* the last of the requested sections that has a line for the key, 0 when none has
LastWith(has(_)) ==
    LET S == {i \in RequestedSections : has(call.file.sections[i])}
    IN  IF S = {} THEN 0 ELSE CHOOSE i \in S : \A j \in S : j <= i

HasUrl(sec) == sec.url
HasSsoRegion(sec) == sec.ssoRegion
HasRegionLine(sec) == sec.region # "none"

ExpectedAWSConfig ==
    LET u == LastWith(HasUrl)
        sr == LastWith(HasSsoRegion)
        r == LastWith(HasRegionLine)
    IN  IF u = 0 \/ sr = 0 \/ r = 0 THEN Null
        ELSE IF call.file.sections[r].region = "empty" THEN Null
        ELSE [ssoStartUrl |-> <<"u" \o ToString(u)>>,
              ssoRegion |-> <<"sr" \o ToString(sr)>>,
              region |-> <<"r" \o ToString(r)>>,
              profile |-> RequestedProfile]

\* C22: getAWSConfig builds its result only from the key=value lines between the
\* header of the requested profile's section and the next section header (no value
\* of another section gets in), sets profile to the requested name, and returns
\* null, never throwing, when the file is missing or unreadable, the section is
\* absent, or sso_start_url, sso_region or region is missing in that section.
C22_ConfigFromRequestedSectionOnly ==
    AWSConfigDone =>
        /\ ~call.threw
        /\ call.file.state # "ok" => call.awsConfig = Null
        /\ call.file.state = "ok" =>
              /\ call.awsConfig = ExpectedAWSConfig
              /\ RequestedSections = {} => call.awsConfig = Null
              /\ call.awsConfig # Null =>
                    /\ call.awsConfig.profile = RequestedProfile
                    /\ \A k \in {"ssoStartUrl", "ssoRegion", "region"} :
                          \E i \in RequestedSections :
                              call.awsConfig[k] \in {<<"u" \o ToString(i)>>,
                                                     <<"sr" \o ToString(i)>>,
                                                     <<"r" \o ToString(i)>>}

C22_Witness ==
    /\ AWSConfigDone
    /\ call.file.state = "ok"
    /\ Len(call.file.sections) = 2
    /\ call.file.sections[1] = [name |-> DefaultName, url |-> TRUE, ssoRegion |-> TRUE,
                                region |-> "none"]
    /\ call.file.sections[2] = [name |-> <<"d", "e", "v">>, url |-> TRUE, ssoRegion |-> TRUE,
                                region |-> "set"]
    /\ call.input.profile = <<>>
    /\ call.awsConfig = Null

\* the parser accepted the raw config with authType 'sso' or 'auto'
ParsedForResolver ==
    /\ parsed # NotParsed
    /\ ~parsed.threw
    /\ Get(parsed.config, "authType") \in {"sso", "auto"}

\* C28: getModelInstance builds the client with the credentials callback exactly when
\* the parsed config has authType 'sso' or 'auto'; building it runs no environment
\* probe and no resolution; every invocation of the callback is one more
\* getCredentials call; a static config reaches the client as parsed and neither the
\* resolver nor the environment check ever runs for it.
C28_ResolverOnlyForSsoAutoAndLazily ==
    /\ client.kind \in {"resolver", "static"} =>
          /\ (client.kind = "resolver") <=> ParsedForResolver
          /\ client.config = parsed.config
    /\ client.resolverCalls = IF client.kind = "resolver" THEN client.invocations ELSE 0
    /\ client.invocations = 0 =>
          /\ probeRuns = 0
          /\ environmentInfo = Null
          /\ call.trace = <<>>
    /\ client.kind = "static" =>
          /\ probeRuns = 0
          /\ environmentInfo = Null
          /\ call.trace = <<>>
          /\ call.op = "credentials" => call.cred.accessKeyId = Get(parsed.config, "accessKeyId")
    /\ (client.kind = "resolver" /\ call.op = "credentials") =>
          /\ call.config = CredentialConfigOf(parsed.config)
          /\ probeRuns >= 1
          /\ call.threw \/ Cardinality(ProviderCalls(call.trace)) = 1

C28_Witness ==
    /\ client.kind = "resolver"
    /\ client.invocations = MaxInvocations
    /\ client.resolverCalls = MaxInvocations
    /\ call.op = "credentials"
    /\ ~call.threw


DetectRunning(c) == calls[c].pc \in {"awaitECS", "awaitEKS", "awaitCli", "awaitIam"}

\* C27: every detectEnvironment call that has started eventually returns, also on a
\* host where 'aws --version' never exits or the metadata endpoint never answers.
C27_EveryDetectReturns ==
    \A c \in Callers : DetectRunning(c) ~> (calls[c].pc = "done")

====
